---- MODULE Spec2Model ----
(***************************************************************************)
(* Kukaj-download: the media extraction and resilient download engine.     *)
(*                                                                         *)
(* Four state machines, one per part of the engine, each with its own      *)
(* specification over the module's variables:                              *)
(*   SpecWeb        WebDownloader.download_video      (src/app.py)         *)
(*   SpecExtract    KukajDownloader.extract_media_urls                     *)
(*                  with _tap_extract_legacy and _mon_extract_legacy       *)
(*   SpecTranscode  WebDownloader._download_with_progress_mp4 and          *)
(*                  KukajDownloader.download_m3u8_file                     *)
(*   SpecSegments   download_with_python of both classes                   *)
(* A specification leaves the variables of the other machines unchanged.   *)
(***************************************************************************)
EXTENDS Integers, Sequences, FiniteSets, TLC

VARIABLES
    \* ---- WebDownloader.download_video -------------------------------
    wpc,                    \* position in download_video
    w_source,               \* the source argument ("NONE" for None)
    w_arm,                  \* platform.machine() names arm / aarch64
    convert_to_mp4,         \* the convert_to_mp4 argument / local
    retry_count,            \* local retry_count
    browser_reinitialized,  \* local browser_reinitialized
    w_session,              \* state of self.page: "open", "closed", "none"
    media_urls,             \* local media_urls
    media_url,              \* local media_url (NoUrl while unbound)
    w_result,               \* "none" while running, then the return value
    w_hist,                 \* history of the call (record of counters)
    \* ---- KukajDownloader.extract_media_urls -------------------------
    epc,                    \* position in extract_media_urls
    e_source,               \* the source argument
    e_call,                 \* number of the current call on the context
    e_page,                 \* self.page at the call: "open" or "none"
    found_urls,             \* local found_urls
    all_listeners,          \* local all_listeners (set of listener names)
    attached,               \* listeners attached to the browsing context
    should_stop_extraction, \* local flag
    source_activated,       \* local source_activated
    source_attempt,         \* local source_attempt
    e_ret,                  \* the returned list (valid when epc = "returned")
    e_hist,                 \* history of the call
    \* ---- transcoder strategies --------------------------------------
    tpc,                    \* position in the strategy
    t_impl,                 \* "web" or "kukaj"
    total_frames,           \* local total_frames
    duration,               \* local duration (0 for None)
    current_frame,          \* local current_frame
    last_emitted_progress,  \* local last_emitted_progress
    t_emitted,              \* percentages of the emitted progress events
    t_hist,                 \* history of the run
    \* ---- download_with_python ---------------------------------------
    spc,                    \* position in download_with_python
    s_impl,                 \* "web" or "kukaj"
    s_playlist,             \* playlist.segments (sequence of segment names)
    s_index,                \* loop index i
    segments_data,          \* local segments_data (kukaj)
    s_file,                 \* bytes of the output file ("absent" record)
    s_hist,                 \* history of the run
    \* ---- start_download / get_download_status (app.py globals) ------
    current_download_session, \* global, "None" or a session id
    download_start_time,      \* global, -1 for None, else seconds
    active_downloads,         \* keys of the global dict
    a_now,                    \* datetime.now(), in seconds
    a_threads,                \* download threads that have not ended
    a_hist,                   \* history of the requests
    \* ---- browser sessions: setup_playwright / close -----------------
    b_arm,                  \* platform.machine() names arm / aarch64
    b_impl,                 \* class of each task's downloader
    b_pc,                   \* "new", "ready", "partial", "failed", "closed"
    b_sess,                 \* self.page/context/browser/playwright per task
    b_proc,                 \* the driver and browser processes per task
    b_actor,                \* the task that took the last step (0: none)
    b_hist,                 \* per task: the last open and the last close
    \* ---- normalize_kukaj_url ----------------------------------------
    npc,                    \* "idle", "call" or "done"
    n_in,                   \* the argument url
    n_out,                  \* the returned pair (normalized_url, was_changed)
    n_again,                \* the pair returned for normalized_url
    \* ---- the output filename derived from the page path -------------
    fpc,                    \* "idle", "call" or "done"
    f_in,                   \* the class, the page path, the media format
    f_out,                  \* the derived output_filename
    f_thread,               \* actual_filename of download_thread
    \* ---- download_mp4_python / _download_direct_mp4 -----------------
    ppc,                    \* "idle", "request", "loop" or "done"
    p_impl,                 \* "kukaj" (download_mp4_python) or "web"
    p_total,                \* local total (0: no content-length)
    downloaded,             \* local downloaded
    last_pct,               \* local last_pct
    p_reports,              \* the last two percentages reported
    \* ---- WebDownloader.emit_progress --------------------------------
    error_count,            \* self.error_count
    q_calls,                \* calls of emit_progress made by the operation
    q_events,               \* 'download_progress' events delivered
    q_aborts,               \* 'download_error_global' events delivered
    q_caller,               \* "running", or "aborted" when a call raised
    \* ---- the download history (app.py global) -----------------------
    download_history,       \* the list, an entry is its url and its date
    h_hist,                 \* the requests made and the last response
    \* ---- the synthetic MON address of extract_media_urls ------------
    mpc,                    \* "idle", "call" or "done"
    m_in,                   \* the page address: its path and its ending
    m_out,                  \* the path of mon_url
    \* ---- the cookies of download_mp4_python -------------------------
    cpc,                    \* "idle", "call" or "done"
    c_in,                   \* the target host, the context and its cookie
    c_out                   \* cookie_parts: the cookies of the Cookie header

webVars  == <<wpc, w_source, w_arm, convert_to_mp4, retry_count,
              browser_reinitialized, w_session, media_urls, media_url,
              w_result, w_hist>>
extVars  == <<epc, e_source, e_call, e_page, found_urls, all_listeners, attached,
              should_stop_extraction, source_activated, source_attempt,
              e_ret, e_hist>>
trVars   == <<tpc, t_impl, total_frames, duration, current_frame,
              last_emitted_progress, t_emitted, t_hist>>
segVars  == <<spc, s_impl, s_playlist, s_index, segments_data, s_file, s_hist>>
admVars  == <<current_download_session, download_start_time,
              active_downloads, a_now, a_threads, a_hist>>
sessVars == <<b_arm, b_impl, b_pc, b_sess, b_proc, b_actor, b_hist>>
normVars == <<npc, n_in, n_out, n_again>>
nameVars == <<fpc, f_in, f_out, f_thread>>
streamVars == <<ppc, p_impl, p_total, downloaded, last_pct, p_reports>>
emitVars == <<error_count, q_calls, q_events, q_aborts, q_caller>>
histVars == <<download_history, h_hist>>
monVars  == <<mpc, m_in, m_out>>
cookieVars == <<cpc, c_in, c_out>>
tailVars == <<histVars, monVars, cookieVars>>
lateVars == <<nameVars, streamVars, emitVars, tailVars>>
auxVars  == <<admVars, sessVars, normVars, lateVars>>
vars     == <<webVars, extVars, trVars, segVars, auxVars>>

(***************************************************************************)
(* URLs.  A URL is the string host ++ path ++ ext ++ query; the model      *)
(* keeps the four parts apart so that the substring, suffix and            *)
(* lower-casing tests of the code can be computed on it.                   *)
(***************************************************************************)
Url(h, p, e, q) == [host |-> h, path |-> p, ext |-> e, query |-> q]

UrlHls      == Url("cdn.net", "/hls/master", ".m3u8", "")
UrlHlsUpper == Url("cdn.net", "/hls/Master", ".m3u8", "")
UrlTapeGet  == Url("streamtape.com", "/get_video", "", "?id=1")
UrlTapeMp4  == Url("tapecontent.net", "/v", ".mp4", "")
UrlTapeHls  == Url("streamtape.com", "/hls/master", ".m3u8", "")
UrlAdMp4    == Url("ads.net", "/promo", ".mp4", "")
UrlCdnMp4   == Url("cdn.net", "/Video", ".mp4", "")
NoUrl       == Url("", "", "", "")

Urls == {UrlHls, UrlHlsUpper, UrlTapeGet, UrlTapeMp4, UrlTapeHls, UrlAdMp4,
         UrlCdnMp4}

\* str.lower() on one part of a URL
LowerPart(s) ==
    CASE s = "/hls/Master" -> "/hls/master"
      [] s = "/Video"      -> "/video"
      [] OTHER             -> s

\* u.lower()
Lower(u) == Url(LowerPart(u.host), LowerPart(u.path), LowerPart(u.ext),
                LowerPart(u.query))

\* the markers (of those the code tests) that occur in one part of a URL
PartMarkers(s) ==
    CASE s = "streamtape.com"  -> {"streamtape", "streamtape.com"}
      [] s = "tapecontent.net" -> {"tapecontent", "tapecontent.net"}
      [] s = "streamta.pe"     -> {"streamta.pe"}
      [] s = ".m3u8"           -> {".m3u8"}
      [] s = ".mp4"            -> {".mp4"}
      [] OTHER                 -> {}

\* marker in u
Contains(u, marker) ==
    \/ marker \in PartMarkers(u.host) \cup PartMarkers(u.path)
                  \cup PartMarkers(u.ext) \cup PartMarkers(u.query)
    \/ marker = "streamtape.com/get_video"
         /\ u.host = "streamtape.com" /\ u.path = "/get_video"

\* u.endswith(e)
EndsWith(u, e) == u.ext = e /\ u.query = ""

StreamtapeHosts == {"streamtape", "tapecontent", "streamta.pe"}

\* any(host in u.lower() for host in ['streamtape','tapecontent','streamta.pe'])
IsStreamtape(u) == \E h \in StreamtapeHosts : Contains(Lower(u), h)

\* x in list
InList(x, list) == \E i \in 1..Len(list) : list[i] = x

\* list(dict.fromkeys(list)): first occurrences, in order
RECURSIVE DedupFrom(_, _)
DedupFrom(list, acc) ==
    IF list = <<>> THEN acc
    ELSE DedupFrom(Tail(list),
                   IF InList(Head(list), acc) THEN acc
                   ELSE Append(acc, Head(list)))
Dedup(list) == DedupFrom(list, <<>>)

NoDuplicates(list) ==
    \A i, j \in 1..Len(list) : i # j => list[i] # list[j]

(***************************************************************************)
(* WebDownloader.download_video: the retry loop                            *)
(***************************************************************************)
max_retries == 2
MaxCandidates == 2

Sources == {"TAP", "MON", "MIX", "NONE"}

\* source and source.upper() == 'TAP'
IsTap(src) == src = "TAP"

\* sequences over Urls of length at most n
SeqsUpTo(n) == UNION {[1..k -> Urls] : k \in 0..n}

\* what extract_media_urls can hand back to download_video: nothing when
\* self.page is None (kukaj_downloader.py:333), a candidate list otherwise
ExtractResults(session) ==
    IF session = "open" THEN SeqsUpTo(MaxCandidates) ELSE {<<>>}

WHist0 == [output_filename |-> "None", discovered |-> <<>>, iter |-> 0, extract_iter |-> 0, extracts |-> 0, fallbacks |-> 0, reinits |-> 0,
           reinit_iters |-> {}, reinit_late |-> FALSE,
           reinit_failed |-> FALSE, last |-> "none", outcomes |-> <<>>,
           session_at_extract |-> "open", strategy |-> "none",
           retry_ev |-> 0, fb_ev |-> 0, error_ev |-> FALSE]

\* emit_progress calls, on the history record h of the call: the warning
\* that announces a retry, the warning that announces a fallback, and an
\* event of severity "error"
EvRetry(h) == [h EXCEPT !.retry_ev = @ + 1]

EvFallback(h) == [h EXCEPT !.fb_ev = @ + 1]

EvErrorDropped(h) == h

EvError(h) == [h EXCEPT !.error_ev = TRUE]

InitWebVars ==
    /\ wpc = "loop"
    /\ w_source \in Sources
    /\ w_arm \in BOOLEAN
    /\ convert_to_mp4 \in BOOLEAN
    /\ retry_count = 0
    /\ browser_reinitialized = FALSE
    /\ w_session = "open"
    /\ media_urls = <<>>
    /\ media_url = NoUrl
    /\ w_result = "none"
    /\ w_hist \in {[WHist0 EXCEPT !.output_filename = f] :
                     f \in {"None", "supplied"}}

IdleWebVars ==
    /\ wpc = "idle"
    /\ w_source = "NONE"
    /\ w_arm = FALSE
    /\ convert_to_mp4 = FALSE
    /\ retry_count = 0
    /\ browser_reinitialized = FALSE
    /\ w_session = "open"
    /\ media_urls = <<>>
    /\ media_url = NoUrl
    /\ w_result = "none"
    /\ w_hist = WHist0

\* a step of download_video leaves the other machines alone
OnlyWeb == UNCHANGED <<extVars, trVars, segVars, auxVars>>

\* while retry_count <= max_retries:
WLoopHead ==
    /\ wpc = "loop"
    /\ OnlyWeb
    /\ IF retry_count <= max_retries
       THEN /\ wpc' = "prelude"
            /\ w_hist' = [w_hist EXCEPT !.iter = @ + 1]
       ELSE /\ wpc' = "download"
            /\ UNCHANGED w_hist
    /\ UNCHANGED <<w_source, w_arm, convert_to_mp4, retry_count,
                   browser_reinitialized, w_session, media_urls, media_url,
                   w_result>>

\* if retry_count == 1 and not browser_reinitialized: ... if 'arm' in machine
ShouldReinitialize ==
    retry_count > 0 /\ retry_count = 1 /\ ~browser_reinitialized /\ w_arm

\* the top of the try body on an iteration that does not reinitialize
WPrelude ==
    /\ wpc = "prelude"
    /\ OnlyWeb
    /\ ~ShouldReinitialize
    /\ wpc' = "normalize"
    /\ UNCHANGED <<w_source, w_arm, convert_to_mp4, retry_count,
                   browser_reinitialized, w_session, media_urls, media_url,
                   w_result, w_hist>>

\* reinitialize_browser(): close(), then KukajDownloader.__init__ again.
\* ok: the new page is open.  A failure before context.new_page() leaves
\* self.page = None (set by __init__), a failure after it leaves the new page.
WReinitialize(outcome) ==
    /\ wpc = "prelude"
    /\ OnlyWeb
    /\ ShouldReinitialize
    /\ wpc' = "normalize"
    /\ w_session' = CASE outcome = "ok"          -> "open"
                      [] outcome = "fail_early"  -> "none"
                      [] outcome = "fail_late"   -> "open"
    /\ browser_reinitialized' = IF outcome = "ok" THEN TRUE
                                ELSE browser_reinitialized
    /\ w_hist' = [w_hist EXCEPT
                    !.reinits = @ + 1,
                    !.reinit_iters = @ \cup {retry_count},
                    !.reinit_late = @ \/ (w_hist.extract_iter = w_hist.iter),
                    !.reinit_failed = @ \/ (outcome # "ok")]
    /\ UNCHANGED <<w_source, w_arm, convert_to_mp4, retry_count, media_urls,
                   media_url, w_result>>

\* a retry test that admits one retry too many
RetriesLeftOffByOne == retry_count <= max_retries

\* if retry_count < max_retries:  (both in the empty branch and the handler)
RetriesLeft == retry_count < max_retries

\* except Exception as e: retry while retry_count < max_retries, else fail;
\* h is the history at the raise
WOnException(h) ==
    /\ w_hist' = (IF RetriesLeft THEN EvRetry(h) ELSE EvError(h))
    /\ IF RetriesLeft
       THEN /\ retry_count' = retry_count + 1
            /\ wpc' = "loop"
            /\ w_result' = w_result
       ELSE /\ retry_count' = retry_count
            /\ wpc' = "done"
            /\ w_result' = "false"

\* normalize_kukaj_url(url) returns
WNormalize ==
    /\ wpc = "normalize"
    /\ OnlyWeb
    /\ wpc' = "extract"
    /\ UNCHANGED <<w_source, w_arm, convert_to_mp4, retry_count,
                   browser_reinitialized, w_session, media_urls, media_url,
                   w_result, w_hist>>

\* urlparse raises on the address (ValueError), before any extraction
WNormalizeThrows ==
    /\ wpc = "normalize"
    /\ OnlyWeb
    /\ WOnException([w_hist EXCEPT !.last = "threw",
                                   !.outcomes = Append(@, "threw")])
    /\ UNCHANGED <<w_source, w_arm, convert_to_mp4, browser_reinitialized,
                   w_session, media_urls, media_url>>

\* if not media_urls: with retries left
WRetryEmpty ==
    /\ retry_count' = retry_count + 1
    /\ wpc' = "loop"

\* media_urls = super().extract_media_urls(url, source) and the test of it
WExtract(urls) ==
    /\ wpc = "extract"
    /\ OnlyWeb
    /\ urls \in ExtractResults(w_session)
    /\ media_urls' = urls
    /\ LET h == [w_hist EXCEPT
                    !.extracts = @ + 1,
                    !.extract_iter = w_hist.iter,
                    !.session_at_extract = w_session,
                    !.last = IF urls = <<>> THEN "empty" ELSE "urls",
                    !.outcomes = Append(@, IF urls = <<>> THEN "empty"
                                           ELSE "urls")]
       IN  w_hist' = (IF urls # <<>> THEN h
                      ELSE IF RetriesLeft THEN EvRetry(h)
                      ELSE IF IsTap(w_source) THEN EvFallback(h)
                      ELSE EvError(h))
    /\ IF urls = <<>>
       THEN IF RetriesLeft
            THEN WRetryEmpty /\ UNCHANGED w_result
            ELSE IF IsTap(w_source)
                 THEN wpc' = "fallback" /\ UNCHANGED <<retry_count, w_result>>
                 ELSE /\ wpc' = "done"
                      /\ w_result' = "false"
                      /\ UNCHANGED retry_count
       ELSE wpc' = "select" /\ UNCHANGED <<retry_count, w_result>>
    /\ UNCHANGED <<w_source, w_arm, convert_to_mp4, browser_reinitialized,
                   w_session, media_url>>

\* the extraction call raises (its first statement, a print, is outside its try)
WExtractThrows ==
    /\ wpc = "extract"
    /\ OnlyWeb
    /\ WOnException([w_hist EXCEPT !.last = "threw",
                                   !.outcomes = Append(@, "threw"),
                                   !.extracts = @ + 1,
                                   !.extract_iter = w_hist.iter,
                                   !.session_at_extract = w_session])
    /\ UNCHANGED <<w_source, w_arm, convert_to_mp4, browser_reinitialized,
                   w_session, media_urls, media_url>>

\* media_urls = super().extract_media_urls(url, 'MON') after TAP ran dry
WFallback(urls) ==
    /\ wpc = "fallback"
    /\ OnlyWeb
    /\ urls \in ExtractResults(w_session)
    /\ media_urls' = urls
    /\ w_hist' = (IF urls # <<>>
                  THEN [w_hist EXCEPT
                          !.fallbacks = @ + 1,
                          !.output_filename =
                              IF @ = "None" THEN "derived" ELSE @]
                  ELSE EvError([w_hist EXCEPT !.fallbacks = @ + 1]))
    /\ IF urls # <<>>
       THEN /\ convert_to_mp4' = TRUE
            /\ wpc' = "select"
            /\ UNCHANGED w_result
       ELSE /\ wpc' = "done"
            /\ w_result' = "false"
            /\ UNCHANGED convert_to_mp4
    /\ UNCHANGED <<w_source, w_arm, retry_count, browser_reinitialized,
                   w_session, media_url>>

\* the fallback extraction raises: the handler runs with retry_count = 2
WFallbackThrows ==
    /\ wpc = "fallback"
    /\ OnlyWeb
    /\ WOnException([w_hist EXCEPT !.fallbacks = @ + 1])
    /\ UNCHANGED <<w_source, w_arm, convert_to_mp4, browser_reinitialized,
                   w_session, media_urls, media_url>>

\* rank of a URL in preferred_order (999 when none matches)
PreferredRank(u) ==
    IF EndsWith(Lower(u), ".m3u8") THEN 0
    ELSE IF Contains(Lower(u), ".m3u8") THEN 1
    ELSE IF EndsWith(Lower(u), ".mp4") THEN 2
    ELSE IF Contains(Lower(u), ".mp4") THEN 3
    ELSE 999

\* media_urls.sort(key=rank): stable insertion by rank
RECURSIVE InsertByRank(_, _)
InsertByRank(u, sorted) ==
    IF sorted = <<>> THEN <<u>>
    ELSE IF PreferredRank(Head(sorted)) <= PreferredRank(u)
         THEN <<Head(sorted)>> \o InsertByRank(u, Tail(sorted))
         ELSE <<u>> \o sorted

RECURSIVE SortFrom(_, _)
SortFrom(list, acc) ==
    IF list = <<>> THEN acc
    ELSE SortFrom(Tail(list), InsertByRank(Head(list), acc))
SortByPreference(list) == SortFrom(list, <<>>)

IsGetVideo(u) == Contains(u, "streamtape.com/get_video")
IsRawMp4(u)   == EndsWith(Lower(u), ".mp4")

\* next((u for u in media_urls if 'streamtape.com/get_video' in u), None),
\* as an index into the list (0 for None)
FirstGetVideo(list) ==
    IF \E i \in 1..Len(list) : IsGetVideo(list[i])
    THEN CHOOSE i \in 1..Len(list) :
            IsGetVideo(list[i]) /\ \A j \in 1..(i - 1) : ~IsGetVideo(list[j])
    ELSE 0

\* next((u for u in media_urls if u.lower().endswith('.mp4')), None)
FirstRawMp4(list) ==
    IF \E i \in 1..Len(list) : IsRawMp4(list[i])
    THEN CHOOSE i \in 1..Len(list) :
            IsRawMp4(list[i]) /\ \A j \in 1..(i - 1) : ~IsRawMp4(list[j])
    ELSE 0

\* the choice of media_url from the sorted list
SelectMediaUrl(sorted, src) ==
    IF IsTap(src)
    THEN IF FirstGetVideo(sorted) # 0
         THEN sorted[FirstGetVideo(sorted)]
         ELSE IF FirstRawMp4(sorted) # 0
              THEN sorted[FirstRawMp4(sorted)]
              ELSE sorted[1]
    ELSE sorted[1]

\* sort, pick media_url, break
WSelect ==
    /\ wpc = "select"
    /\ OnlyWeb
    /\ media_urls' = SortByPreference(media_urls)
    /\ media_url' = SelectMediaUrl(media_urls', w_source)
    /\ wpc' = "download"
    /\ w_hist' = [w_hist EXCEPT !.discovered = media_urls]
    /\ UNCHANGED <<w_source, w_arm, convert_to_mp4, retry_count,
                   browser_reinitialized, w_session, w_result>>

\* kukaj_downloader.py:973-984  media_urls.sort(key=...); media_urls[0]
KukajSelect(list) == SortByPreference(list)[1]

\* the format test of the download phase: '.m3u8' in media_url.lower()
IsPlaylist(u) == Contains(Lower(u), ".m3u8")

\* app.py:330-379  the strategy download_video applies to media_url:
\* _download_with_progress_mp4 (ffmpeg with the audio-bitstream filter, then
\* download_with_python) when convert_to_mp4 is set, else the link is sent
WebStrategy(convert, u) == IF convert THEN "playlist" ELSE "link"

\* kukaj_downloader.py:1013-1018  download_m3u8_file or download_mp4_file
KukajStrategy(u) == IF IsPlaylist(u) THEN "playlist" ELSE "progressive"

\* the code after the loop: server-side conversion or link-only mode
WDownload(success) ==
    /\ wpc = "download"
    /\ OnlyWeb
    /\ wpc' = "done"
    /\ w_result' = IF convert_to_mp4
                   THEN (IF success THEN "true" ELSE "false")
                   ELSE "true"
    /\ LET h == [w_hist EXCEPT !.strategy = WebStrategy(convert_to_mp4, media_url)]
       IN  w_hist' = (IF convert_to_mp4 /\ ~success THEN EvError(h) ELSE h)
    /\ UNCHANGED <<w_source, w_arm, convert_to_mp4, retry_count,
                   browser_reinitialized, w_session, media_urls, media_url>>

NextWeb ==
    \/ WLoopHead
    \/ WPrelude
    \/ \E outcome \in {"ok", "fail_early", "fail_late"} : WReinitialize(outcome)
    \/ WNormalize
    \/ WNormalizeThrows
    \/ \E urls \in SeqsUpTo(MaxCandidates) : WExtract(urls)
    \/ WExtractThrows
    \/ \E urls \in SeqsUpTo(MaxCandidates) : WFallback(urls)
    \/ WFallbackThrows
    \/ WSelect
    \/ \E success \in BOOLEAN : WDownload(success)


(***************************************************************************)
(* KukajDownloader.extract_media_urls, with the two legacy extractors.     *)
(* A page call (goto, wait_for_..., click, evaluate) either returns or     *)
(* raises; while it blocks, requests and responses of the page reach the   *)
(* listeners attached to the browsing context.                             *)
(***************************************************************************)
max_source_attempts == 3
MaxEvents == 2      \* requests and responses delivered during one call
MaxFrames == 1      \* hosting frames looked at by one frame scan
MaxCalls  == 2      \* calls of extract_media_urls on one browsing context

\* addresses seen on the network, and addresses a video element may carry
EventUrls == {UrlHls, UrlHlsUpper, UrlTapeMp4, UrlAdMp4}
VideoSrcs == {UrlTapeMp4, UrlCdnMp4}
EventKinds == {"request", "response"}

OnlyExt == UNCHANGED <<webVars, trVars, segVars, auxVars>>

\* ctx.on(kind, f): the listener of one flow of one call
Listener(c, flow, kind) == [call |-> c, flow |-> flow, kind |-> kind]
BothKinds(c, flow) == {Listener(c, flow, k) : k \in EventKinds}

\* _sniff_mon_request / _sniff_mon_response
MonSniff(list, u) ==
    IF Contains(Lower(u), ".m3u8") /\ ~InList(Lower(u), list)
    THEN Append(list, u) ELSE list

\* _sniff of _mon_extract_legacy
LegacySniff(list, u) ==
    IF Contains(Lower(u), ".m3u8") /\ ~InList(Lower(u), list)
    THEN Append(list, u) ELSE list

\* _sniff_request / _sniff_response
GeneralSniff(list, u, src) ==
    IF (Contains(Lower(u), ".m3u8") \/ Contains(Lower(u), ".mp4"))
         /\ ~InList(Lower(u), list)
    THEN IF IsTap(src)
         THEN (IF IsStreamtape(u) THEN Append(list, u) ELSE list)
         ELSE IF Contains(Lower(u), ".m3u8") THEN Append(list, u)
         ELSE IF Contains(Lower(u), ".mp4") /\ IsStreamtape(u)
              THEN Append(list, u)
         ELSE list
    ELSE list

\* found_urls after the listeners of this call have seen one event
Deliver(list, kind, u) ==
    LET a == IF Listener(e_call, "mon", kind) \in attached
             THEN MonSniff(list, u) ELSE list
        b == IF Listener(e_call, "legacy", kind) \in attached
             THEN LegacySniff(a, u) ELSE a
    IN  IF Listener(e_call, "general", kind) \in attached
        THEN GeneralSniff(b, u, e_source) ELSE b

\* the legacy TAP frame scan takes a video source only from a hosting domain
TapAccept(list, c) ==
    IF ~InList(c, list) /\ IsStreamtape(c) THEN Append(list, c) ELSE list

\* the scans of the general flow take any video source not yet listed
ScanAccept(list, c) ==
    IF ~InList(c, list) THEN Append(list, c) ELSE list

RECURSIVE TapHarvest(_, _)
TapHarvest(list, srcs) ==
    IF srcs = <<>> THEN list
    ELSE TapHarvest(TapAccept(list, Head(srcs)), Tail(srcs))

RECURSIVE ScanHarvest(_, _)
ScanHarvest(list, srcs) ==
    IF srcs = <<>> THEN list
    ELSE ScanHarvest(ScanAccept(list, Head(srcs)), Tail(srcs))

\* the STRICT FILTERING block after a legacy TAP extraction
TapFilter(list) ==
    LET filtered == SelectSeq(list, IsStreamtape)
    IN  IF list # <<>> /\ filtered # <<>> THEN filtered ELSE list

\* the final filtering of the general flow
FinalKeep(u, src) ==
    IF IsTap(src) THEN IsStreamtape(u)
    ELSE \/ Contains(Lower(u), ".m3u8")
         \/ Contains(Lower(u), ".mp4") /\ IsStreamtape(u)

FinalFilter(list, src) ==
    LET Keep(u) == FinalKeep(u, src)
        filtered == SelectSeq(list, Keep)
    IN  IF Len(filtered) < Len(list) THEN filtered ELSE list

FrameSrcs == UNION {[1..k -> VideoSrcs] : k \in 0..MaxFrames}

EHist0 == [events |-> 0, path |-> "none", located_attempt |-> 0,
           activated_at |-> 0, after_loop |-> FALSE,
           reported_failed |-> FALSE, stale_observed |-> FALSE,
           href |-> "unread", action |-> "none",
           tap_by |-> "none", tap_href |-> "unread", tap_action |-> "none",
           consulted |-> 0, used |-> "none", menu |-> "unseen",
           not_found |-> FALSE, waits |-> 0]

\* the record of the latest attempt is dropped at the next loop test, the one
\* of the legacy extractor when the general flow begins
AttemptForgotten(h) ==
    [h EXCEPT !.href = "unread", !.action = "none", !.consulted = 0,
              !.used = "none", !.menu = "unseen", !.not_found = FALSE]

LegacyForgotten(h) ==
    [h EXCEPT !.tap_by = "none", !.tap_href = "unread", !.tap_action = "none"]

\* values of get_attribute("href"): None (no such attribute), the three
\* literals the code lists, and a real target
Hrefs == {"None", "", "#", "javascript:void(0)", "/tap"}

\* href and href not in ("#", "", "javascript:void(0)")
RequiresNavigation(href) ==
    /\ href # "None"
    /\ href # ""
    /\ href \notin {"#", "", "javascript:void(0)"}

\* how _tap_extract_legacy came by its control: the label inside the menu,
\* the label anywhere on the page, the generic anchor, or nothing
TapLocators == {"menu", "page", "anchor", "none"}

\* what _tap_extract_legacy does with the control it found
LegacyAction(by, href) ==
    CASE by = "none"   -> "return_empty"
      [] by = "anchor" -> IF RequiresNavigation(href) THEN "goto" ELSE "nothing"
      [] OTHER         -> IF RequiresNavigation(href) THEN "goto" ELSE "click"

\* one run of _tap_extract_legacy on found_urls: the control is handled as
\* LegacyAction says; a raise of the navigation, the click or a wait is
\* caught by the outer handler and the list stays as it was
LegacyRuns(by, href, outcome, srcs) ==
    /\ by = "none" => href = "None"
    /\ LegacyAction(by, href) \in {"return_empty", "nothing"} => outcome = "ok"
    /\ (outcome = "throw" \/ by = "none") => srcs = <<>>

LegacyHist(h, by, href) ==
    [h EXCEPT !.tap_by = by, !.tap_href = href,
              !.tap_action = LegacyAction(by, href)]

IdleExtVars ==
    /\ epc = "idle"
    /\ e_source = "NONE"
    /\ e_call = 0
    /\ e_page = "open"
    /\ found_urls = <<>>
    /\ all_listeners = {}
    /\ attached = {}
    /\ should_stop_extraction = FALSE
    /\ source_activated = FALSE
    /\ source_attempt = 0
    /\ e_ret = <<>>
    /\ e_hist = EHist0

\* return list
EReturn(list, path) ==
    /\ epc' = "returned"
    /\ e_ret' = list
    /\ e_hist' = [e_hist EXCEPT !.path = path]

\* for event_type, listener in all_listeners: ctx.remove_listener(...)
RemoveTracked == attached \ UNION {BothKinds(e_call, f) : f \in all_listeners}

\* a call of extract_media_urls begins: locals are fresh, the context is not
ECall(src, page) ==
    /\ epc \in {"idle", "returned"}
    /\ e_call < MaxCalls
    /\ OnlyExt
    /\ e_call' = e_call + 1
    /\ e_source' = src
    /\ e_page' = page
    /\ found_urls' = <<>>
    /\ all_listeners' = {}
    /\ should_stop_extraction' = FALSE
    /\ source_activated' = FALSE
    /\ source_attempt' = 0
    /\ IF page = "none"
       THEN /\ epc' = "returned"
            /\ e_ret' = <<>>
            /\ e_hist' = [EHist0 EXCEPT !.path = "nopage"]
       ELSE /\ epc' = CASE src = "TAP" -> "tap_legacy"
                        [] src = "MON" -> "mon_register"
                        [] OTHER       -> "register"
            /\ e_ret' = <<>>
            /\ e_hist' = EHist0
    /\ UNCHANGED attached

\* a request or a response reaches every listener attached to the context
EObserve(kind, u) ==
    /\ epc \in {"mon_goto", "mon_wait", "mon_back", "mon_back_exc",
                "leg_goto", "leg_wait", "goto", "act_ready", "act_locate",
                "act_backoff", "act_href", "act_nav", "act_click",
                "act_settle", "act_except", "passive"}
    /\ epc = "passive" => found_urls = <<>>
    /\ e_hist.events < MaxEvents
    /\ \E l \in attached : l.kind = kind
    /\ OnlyExt
    /\ found_urls' = Deliver(found_urls, kind, u)
    /\ should_stop_extraction' =
          (should_stop_extraction
             \/ (Listener(e_call, "mon", kind) \in attached
                   /\ MonSniff(found_urls, u) # found_urls))
    /\ e_hist' = [e_hist EXCEPT
                    !.events = @ + 1,
                    !.stale_observed =
                        @ \/ \E l \in attached : l.kind = kind /\ l.call < e_call]
    /\ UNCHANGED <<epc, e_source, e_call, e_page, all_listeners, attached,
                   source_activated, source_attempt, e_ret>>

\* TAP: _tap_extract_legacy first, strict filtering, early return
ETapLegacy(by, href, outcome, srcs) ==
    /\ epc = "tap_legacy"
    /\ OnlyExt
    /\ LegacyRuns(by, href, outcome, srcs)
    /\ LET harvested == TapFilter(TapHarvest(found_urls, srcs))
       IN  /\ found_urls' = harvested
           /\ IF harvested # <<>>
              THEN /\ epc' = "returned"
                   /\ e_ret' = harvested
                   /\ e_hist' = [LegacyHist(e_hist, by, href)
                                   EXCEPT !.path = "tap_legacy"]
              ELSE /\ epc' = "register"
                   /\ e_hist' = LegacyHist(e_hist, by, href)
                   /\ UNCHANGED e_ret
    /\ UNCHANGED <<e_source, e_call, e_page, all_listeners, attached,
                   should_stop_extraction, source_activated, source_attempt>>

\* MON: the two direct sniffers are registered before navigation
EMonRegister ==
    /\ epc = "mon_register"
    /\ OnlyExt
    /\ attached' = attached \cup BothKinds(e_call, "mon")
    /\ all_listeners' = all_listeners \cup {"mon"}
    /\ epc' = "mon_goto"
    /\ UNCHANGED <<e_source, e_call, e_page, found_urls,
                   should_stop_extraction, source_activated, source_attempt,
                   e_ret, e_hist>>

\* self.page.goto(mon_url)
EMonGoto(outcome) ==
    /\ epc = "mon_goto"
    /\ OnlyExt
    /\ epc' = IF outcome = "ok" THEN "mon_wait" ELSE "mon_back_exc"
    /\ UNCHANGED <<e_source, e_call, e_page, found_urls, all_listeners,
                   attached, should_stop_extraction, source_activated,
                   source_attempt, e_ret, e_hist>>

\* the waits after the direct navigation, then the early return
EMonWait(outcome) ==
    /\ epc = "mon_wait"
    /\ OnlyExt
    /\ IF outcome = "ok"
       THEN IF found_urls # <<>> \/ should_stop_extraction
            THEN /\ attached' = RemoveTracked
                 /\ EReturn(found_urls, "mon_direct")
            ELSE /\ epc' = "mon_back"
                 /\ UNCHANGED <<attached, e_ret, e_hist>>
       ELSE /\ epc' = "mon_back_exc"
            /\ UNCHANGED <<attached, e_ret, e_hist>>
    /\ UNCHANGED <<e_source, e_call, e_page, found_urls, all_listeners,
                   should_stop_extraction, source_activated, source_attempt>>

\* the clean-up that ends the direct MON block
MonCleanup ==
    /\ attached' = RemoveTracked
    /\ all_listeners' = {}
    /\ should_stop_extraction' = FALSE
    /\ epc' = IF found_urls = <<>> THEN "leg_register" ELSE "register"

\* self.page.goto(url) back to the page, in the try body
EMonBack(outcome) ==
    /\ epc = "mon_back"
    /\ OnlyExt
    /\ IF outcome = "ok"
       THEN MonCleanup
       ELSE /\ epc' = "mon_back_exc"
            /\ UNCHANGED <<all_listeners, attached, should_stop_extraction>>
    /\ UNCHANGED <<e_source, e_call, e_page, found_urls, source_activated,
                   source_attempt, e_ret, e_hist>>

\* self.page.goto(url) in the handler of the direct MON block
EMonBackExc(outcome) ==
    /\ epc = "mon_back_exc"
    /\ OnlyExt
    /\ IF outcome = "ok"
       THEN MonCleanup
       ELSE /\ epc' = "error"
            /\ UNCHANGED <<all_listeners, attached, should_stop_extraction>>
    /\ UNCHANGED <<e_source, e_call, e_page, found_urls, source_activated,
                   source_attempt, e_ret, e_hist>>

\* _mon_extract_legacy: its two listeners are kept in its own local list
ELegRegister ==
    /\ epc = "leg_register"
    /\ OnlyExt
    /\ attached' = attached \cup BothKinds(e_call, "legacy")
    /\ epc' = "leg_goto"
    /\ UNCHANGED <<e_source, e_call, e_page, found_urls, all_listeners,
                   should_stop_extraction, source_activated, source_attempt,
                   e_ret, e_hist>>

\* if self.page.url != url: self.page.goto(url); a raise leaves the function
\* through its handler, which removes nothing
ELegGoto(outcome) ==
    /\ epc = "leg_goto"
    /\ OnlyExt
    /\ epc' = IF outcome \in {"skip", "ok"} THEN "leg_wait" ELSE "leg_return"
    /\ UNCHANGED <<e_source, e_call, e_page, found_urls, all_listeners,
                   attached, should_stop_extraction, source_activated,
                   source_attempt, e_ret, e_hist>>

\* the click and the 15 s wait, then ctx.remove_listener for both
ELegWait(outcome) ==
    /\ epc = "leg_wait"
    /\ OnlyExt
    /\ attached' = IF outcome = "ok"
                   THEN attached \ BothKinds(e_call, "legacy")
                   ELSE attached
    /\ epc' = "leg_return"
    /\ UNCHANGED <<e_source, e_call, e_page, found_urls, all_listeners,
                   should_stop_extraction, source_activated, source_attempt,
                   e_ret, e_hist>>

\* back in extract_media_urls: if found_urls: return list(dict.fromkeys(..))
ELegReturn ==
    /\ epc = "leg_return"
    /\ OnlyExt
    /\ IF found_urls # <<>>
       THEN EReturn(Dedup(found_urls), "mon_legacy")
       ELSE epc' = "register" /\ UNCHANGED <<e_ret, e_hist>>
    /\ UNCHANGED <<e_source, e_call, e_page, found_urls, all_listeners,
                   attached, should_stop_extraction, source_activated,
                   source_attempt>>

\* the general flow: _sniff_request and _sniff_response are registered
ERegister ==
    /\ epc = "register"
    /\ OnlyExt
    /\ attached' = attached \cup BothKinds(e_call, "general")
    /\ all_listeners' = all_listeners \cup {"general"}
    /\ epc' = "goto"
    /\ e_hist' = LegacyForgotten(e_hist)
    /\ UNCHANGED <<e_source, e_call, e_page, found_urls,
                   should_stop_extraction, source_activated, source_attempt,
                   e_ret>>

\* response = self.page.goto(url); then "if source:"
EGoto(outcome) ==
    /\ epc = "goto"
    /\ OnlyExt
    /\ epc' = IF outcome # "ok" THEN "error"
              ELSE IF e_source # "NONE" THEN "act_loop" ELSE "passive"
    /\ UNCHANGED <<e_source, e_call, e_page, found_urls, all_listeners,
                   attached, should_stop_extraction, source_activated,
                   source_attempt, e_ret, e_hist>>

\* a loop test that forgets the activation flag
ActLoopIgnoresActivation == source_attempt < max_source_attempts

\* while not source_activated and source_attempt < max_source_attempts:
ActLoopContinues ==
    ~source_activated /\ source_attempt < max_source_attempts

\* the loop test, and source_attempt += 1 on entry to the body
EActLoop ==
    /\ epc = "act_loop"
    /\ OnlyExt
    /\ IF ActLoopContinues
       THEN /\ source_attempt' = source_attempt + 1
            /\ epc' = "act_ready"
       ELSE /\ source_attempt' = source_attempt
            /\ epc' = "act_after"
    /\ e_hist' = AttemptForgotten(e_hist)
    /\ UNCHANGED <<e_source, e_call, e_page, found_urls, all_listeners,
                   attached, should_stop_extraction, source_activated,
                   e_ret>>

\* self.page.wait_for_load_state('domcontentloaded')
EActReady(outcome) ==
    /\ epc = "act_ready"
    /\ OnlyExt
    /\ epc' = IF outcome = "ok" THEN "act_locate" ELSE "act_except"
    /\ UNCHANGED <<e_source, e_call, e_page, found_urls, all_listeners,
                   attached, should_stop_extraction, source_activated,
                   source_attempt, e_ret, e_hist>>

\* where a not-found attempt goes: back-off and continue, or break
AfterNotFound ==
    IF source_attempt < max_source_attempts THEN "act_backoff" ELSE "act_after"

\* Strategy 1 (subplayermenu), 2 (anywhere on page), 3 (data attributes)
LocatorStrategies == {"menu", "page", "attrs"}

StrategyOrderAttrsFirst == <<"attrs", "menu", "page">>

\* the order in which the code runs the three strategy blocks
StrategyOrder == <<"menu", "page", "attrs">>

\* what the page gives each strategy during one attempt: "found" (count() >
\* 0), "empty" (count() = 0, or the locator could not be built), "raise"
\* (count() raises: the locator stays assigned and the test before the next
\* block, which is outside the inner try, raises again)
Snapshots == [LocatorStrategies -> {"found", "empty", "raise"}]

\* the strategy blocks from the i-th on, btn_locator being None before it
RECURSIVE LocateFrom(_, _)
LocateFrom(i, page) ==
    LET strategy == StrategyOrder[i]
    IN  CASE page[strategy] = "found" ->
               [end |-> "found", used |-> strategy, consulted |-> i]
          [] page[strategy] = "raise" ->
               [end |-> "throw", used |-> "none", consulted |-> i]
          [] OTHER ->
               IF i = Len(StrategyOrder)
               THEN [end |-> "not_found", used |-> "none", consulted |-> i]
               ELSE LocateFrom(i + 1, page)

\* wait_for_selector("div.subplayermenu") with its alternatives (every
\* raise swallowed), then the three strategy blocks and the not-found test
EActLocate(menu, page) ==
    /\ epc = "act_locate"
    /\ OnlyExt
    /\ menu = "absent" => page["menu"] # "found"
    /\ LET located == LocateFrom(1, page)
       IN  /\ epc' = CASE located.end = "found"     -> "act_href"
                       [] located.end = "not_found" -> AfterNotFound
                       [] OTHER                     -> "act_except"
           /\ e_hist' = [e_hist EXCEPT
                           !.located_attempt =
                               IF located.end = "found" THEN source_attempt
                               ELSE @,
                           !.consulted = located.consulted,
                           !.used = located.used,
                           !.menu = menu,
                           !.not_found = (located.end = "not_found")]
    /\ UNCHANGED <<e_source, e_call, e_page, found_urls, all_listeners,
                   attached, should_stop_extraction, source_activated,
                   source_attempt, e_ret>>

\* self.page.wait_for_timeout(2000) has returned
Waited(h) == [h EXCEPT !.waits = @ + 1]

\* self.page.wait_for_timeout(2000) before "continue" (control not found)
EActBackoff(outcome) ==
    /\ epc = "act_backoff"
    /\ OnlyExt
    /\ epc' = IF outcome = "ok" THEN "act_loop" ELSE "act_except"
    /\ e_hist' = IF outcome = "ok" THEN Waited(e_hist) ELSE e_hist
    /\ UNCHANGED <<e_source, e_call, e_page, found_urls, all_listeners,
                   attached, should_stop_extraction, source_activated,
                   source_attempt, e_ret>>

\* href = btn_locator.first.get_attribute("href") and the test of it
EActHref(href) ==
    /\ epc = "act_href"
    /\ OnlyExt
    /\ epc' = CASE href = "throw"           -> "act_except"
                [] RequiresNavigation(href) -> "act_nav"
                [] OTHER                    -> "act_click"
    /\ e_hist' = [e_hist EXCEPT !.href = href, !.action = "none"]
    /\ UNCHANGED <<e_source, e_call, e_page, found_urls, all_listeners,
                   attached, should_stop_extraction, source_activated,
                   source_attempt, e_ret>>

\* source_activated = True, after the navigation or the click named by action
Activate(action) ==
    /\ source_activated' = TRUE
    /\ e_hist' = [e_hist EXCEPT !.activated_at = source_attempt,
                                !.action = action]

\* self.page.goto(next_url); on a hosting page the video source is taken
\* (src = NoUrl: not a hosting page, no video element, or the scan raised)
EActNav(outcome, src) ==
    /\ epc = "act_nav"
    /\ OnlyExt
    /\ IF outcome = "ok"
       THEN /\ Activate("goto")
            /\ found_urls' = IF src = NoUrl THEN found_urls
                             ELSE ScanAccept(found_urls, src)
            /\ epc' = "act_settle"
       ELSE /\ src = NoUrl
            /\ epc' = "act_loop"
            /\ e_hist' = [e_hist EXCEPT !.action = "goto"]
            /\ UNCHANGED <<source_activated, found_urls>>
    /\ UNCHANGED <<e_source, e_call, e_page, all_listeners, attached,
                   should_stop_extraction, source_attempt, e_ret>>

\* btn_locator.first.click(), then the JavaScript click when that raised
EActClick(outcome) ==
    /\ epc = "act_click"
    /\ OnlyExt
    /\ IF outcome \in {"click", "js_click"}
       THEN Activate("click") /\ epc' = "act_settle"
       ELSE /\ epc' = "act_loop"
            /\ e_hist' = [e_hist EXCEPT !.action = "click"]
            /\ UNCHANGED source_activated
    /\ UNCHANGED <<e_source, e_call, e_page, found_urls, all_listeners,
                   attached, should_stop_extraction, source_attempt, e_ret>>

\* if source_activated: wait for the network, scan the hosting frames, break
EActSettle(outcome, srcs) ==
    /\ epc = "act_settle"
    /\ OnlyExt
    /\ IF outcome = "ok"
       THEN /\ found_urls' = ScanHarvest(found_urls, srcs)
            /\ epc' = "act_after"
       ELSE /\ srcs = <<>>
            /\ epc' = "act_except"
            /\ UNCHANGED found_urls
    /\ UNCHANGED <<e_source, e_call, e_page, all_listeners, attached,
                   should_stop_extraction, source_activated, source_attempt,
                   e_ret, e_hist>>

\* except Exception as source_err: back-off and continue, or break; a raise
\* of the back-off wait leaves the loop for the outer handler
EActExcept(outcome) ==
    /\ epc = "act_except"
    /\ OnlyExt
    /\ IF source_attempt < max_source_attempts
       THEN /\ epc' = IF outcome = "ok" THEN "act_loop" ELSE "error"
            /\ e_hist' = IF outcome = "ok" THEN Waited(e_hist) ELSE e_hist
       ELSE /\ outcome = "ok"
            /\ epc' = "act_after"
            /\ UNCHANGED e_hist
    /\ UNCHANGED <<e_source, e_call, e_page, found_urls, all_listeners,
                   attached, should_stop_extraction, source_activated,
                   source_attempt, e_ret>>

\* if not source_activated: print("Failed to activate source ...")
EActAfter ==
    /\ epc = "act_after"
    /\ OnlyExt
    /\ e_hist' = [AttemptForgotten(e_hist) EXCEPT
                    !.after_loop = TRUE,
                    !.reported_failed = ~source_activated]
    /\ epc' = "passive"
    /\ UNCHANGED <<e_source, e_call, e_page, found_urls, all_listeners,
                   attached, should_stop_extraction, source_activated,
                   source_attempt, e_ret>>

\* if not found_urls: self.page.wait_for_timeout(self.wait_sec * 1000)
EPassive(outcome) ==
    /\ epc = "passive"
    /\ OnlyExt
    /\ IF found_urls = <<>>
       THEN epc' = IF outcome = "ok" THEN "finish" ELSE "error"
       ELSE outcome = "ok" /\ epc' = "finish"
    /\ UNCHANGED <<e_source, e_call, e_page, found_urls, all_listeners,
                   attached, should_stop_extraction, source_activated,
                   source_attempt, e_ret, e_hist>>

\* listeners removed, Deduplicate, final filtering, return (TAP with nothing
\* found goes to the legacy extractor once more)
EFinish ==
    /\ epc = "finish"
    /\ OnlyExt
    /\ attached' = RemoveTracked
    /\ all_listeners' = {}
    /\ LET final == FinalFilter(Dedup(found_urls), e_source)
       IN  /\ found_urls' = final
           /\ IF final = <<>> /\ IsTap(e_source)
              THEN epc' = "tap_last" /\ UNCHANGED <<e_ret, e_hist>>
              ELSE EReturn(final, "general")
    /\ UNCHANGED <<e_source, e_call, e_page, should_stop_extraction,
                   source_activated, source_attempt>>

\* _tap_extract_legacy as last resort, strict filtering, return
ETapLast(by, href, outcome, srcs) ==
    /\ epc = "tap_last"
    /\ OnlyExt
    /\ LegacyRuns(by, href, outcome, srcs)
    /\ found_urls' = TapFilter(TapHarvest(found_urls, srcs))
    /\ epc' = "returned"
    /\ e_ret' = found_urls'
    /\ e_hist' = [LegacyHist(e_hist, by, href) EXCEPT !.path = "general"]
    /\ UNCHANGED <<e_source, e_call, e_page, all_listeners, attached,
                   should_stop_extraction, source_activated, source_attempt>>

\* except Exception as e: remove what all_listeners tracks, return found_urls
EError ==
    /\ epc = "error"
    /\ OnlyExt
    /\ attached' = RemoveTracked
    /\ EReturn(found_urls, "error")
    /\ UNCHANGED <<e_source, e_call, e_page, found_urls, all_listeners,
                   should_stop_extraction, source_activated, source_attempt>>

Outcomes == {"ok", "throw"}

NextExtract ==
    \/ \E src \in Sources, page \in {"open", "none"} : ECall(src, page)
    \/ \E kind \in EventKinds, u \in EventUrls : EObserve(kind, u)
    \/ \E by \in TapLocators, href \in Hrefs, outcome \in Outcomes,
          srcs \in FrameSrcs : ETapLegacy(by, href, outcome, srcs)
    \/ EMonRegister
    \/ \E outcome \in Outcomes : EMonGoto(outcome)
    \/ \E outcome \in Outcomes : EMonWait(outcome)
    \/ \E outcome \in Outcomes : EMonBack(outcome)
    \/ \E outcome \in Outcomes : EMonBackExc(outcome)
    \/ ELegRegister
    \/ \E outcome \in {"skip", "ok", "throw"} : ELegGoto(outcome)
    \/ \E outcome \in Outcomes : ELegWait(outcome)
    \/ ELegReturn
    \/ ERegister
    \/ \E outcome \in Outcomes : EGoto(outcome)
    \/ EActLoop
    \/ \E outcome \in Outcomes : EActReady(outcome)
    \/ \E menu \in {"present", "absent"}, page \in Snapshots :
          EActLocate(menu, page)
    \/ \E outcome \in Outcomes : EActBackoff(outcome)
    \/ \E href \in Hrefs \cup {"throw"} : EActHref(href)
    \/ \E outcome \in Outcomes, src \in VideoSrcs \cup {NoUrl} :
          EActNav(outcome, src)
    \/ \E outcome \in {"click", "js_click", "fail"} : EActClick(outcome)
    \/ \E outcome \in Outcomes, srcs \in FrameSrcs : EActSettle(outcome, srcs)
    \/ \E outcome \in Outcomes : EActExcept(outcome)
    \/ EActAfter
    \/ \E outcome \in Outcomes : EPassive(outcome)
    \/ EFinish
    \/ \E by \in TapLocators, href \in Hrefs, outcome \in Outcomes,
          srcs \in FrameSrcs : ETapLast(by, href, outcome, srcs)
    \/ EError


(***************************************************************************)
(* The playlist branch: the external transcoder and its fallback.          *)
(* t_impl = "web" is WebDownloader._download_with_progress_mp4,            *)
(* t_impl = "kukaj" is KukajDownloader.download_m3u8_file.                 *)
(* t_emitted is the sequence of progress events that carry a percentage,   *)
(* with a marker where the fallback to the other strategy is reported.     *)
(***************************************************************************)
MaxLines == 3
MaxSegments == 2
FallbackFrames == 5000
Impls == {"web", "kukaj"}
\* ffprobe's frame count (0: none found) and duration in seconds (0: None)
ProbeFrames == {0, 50, 100}
ProbeDurations == {0, 10}
\* frame= and out_time_ms= values of the progress lines (time in seconds)
FrameCounts == {10, 25, 50, 100, 125}
OutTimes == {2, 5, 10}
Segments == {"a", "b"}

Min(a, b) == IF a < b THEN a ELSE b

Pct(n) == [kind |-> "pct", pct |-> n]
FallbackReported == [kind |-> "fallback", pct |-> 0]

THist0 == [lines |-> 0, time |-> 0, exit |-> "none", fallback |-> FALSE,
           result |-> "none", stream |-> "none", copy |-> "none",
           error_ev |-> FALSE]
SHist0 == [result |-> "none", fetched |-> <<>>, written |-> <<>>,
           error_ev |-> FALSE]

\* what the output path holds before the task: nothing, or an older file
OldFiles == {<<>>, <<7>>}
\* what ffmpeg has written when it exits with status 0, and what it may
\* leave behind when it fails after it opened the output
FfmpegOutput == <<8, 9>>
FfmpegPartial == {<<>>, <<8>>}
\* the body of a progressive file, and what a broken transfer leaves
Mp4Body == <<4, 5>>
Mp4Partial == {<<>>, <<4>>}

\* open(output_filename, 'wb') and ffmpeg -y: the old content is dropped
OpenForAppend(file) == file

OpenForWrite(file) == <<>>

IdleTrVars ==
    /\ tpc = "idle"
    /\ t_impl = "web"
    /\ total_frames = 0
    /\ duration = 0
    /\ current_frame = 0
    /\ last_emitted_progress = -1
    /\ t_emitted = <<>>
    /\ t_hist = THist0

IdleSegVars ==
    /\ spc = "idle"
    /\ s_impl = "web"
    /\ s_playlist = <<>>
    /\ s_index = 0
    /\ segments_data = <<>>
    /\ s_file = <<>>
    /\ s_hist = SHist0

InitPlaylistVars ==
    /\ tpc = "start"
    /\ t_impl \in Impls \cup {"kukaj_mp4"}
    /\ total_frames = 0
    /\ duration = 0
    /\ current_frame = 0
    /\ last_emitted_progress = -1
    /\ t_emitted = <<>>
    /\ t_hist = THist0
    /\ spc = "idle"
    /\ s_impl = "web"
    /\ s_playlist = <<>>
    /\ s_index = 0
    /\ segments_data = <<>>
    /\ s_file \in OldFiles
    /\ s_hist = SHist0

OnlyPlaylist == UNCHANGED <<webVars, extVars, auxVars>>

SegIdle == UNCHANGED segVars

\* download_with_python(m3u8_url, output_filename) is entered
StartPython ==
    /\ spc' = "load"
    /\ s_impl' = t_impl
    /\ UNCHANGED <<s_playlist, s_index, segments_data, s_hist>>

\* what ffmpeg leaves at the output path: its whole output on exit 0, a part
\* of it or an empty file on another exit, nothing new when it never ran
FfmpegLeaves(exit, file, left) ==
    IF exit = "zero" THEN OpenForWrite(file) \o FfmpegOutput
    ELSE IF exit = "nonzero" THEN OpenForWrite(file) \o left
    ELSE file

\* the transcoder outcomes after which the segment reconstruction is started
FallsBackAlways(impl, exit) == TRUE

FallsBack(impl, exit) ==
    IF impl = "web"
    THEN exit \in {"nonzero", "notfound"}
    ELSE exit # "zero"

\* the strategy is left: with True, with False, or into download_with_python
TLeave(exit, emitted) ==
    /\ tpc' = "done"
    /\ \E left \in FfmpegPartial : s_file' = FfmpegLeaves(exit, s_file, left)
    /\ IF FallsBack(t_impl, exit)
       THEN /\ t_emitted' = (IF t_impl = "web"
                             THEN Append(emitted, FallbackReported)
                             ELSE emitted)
            /\ LET h == [t_hist EXCEPT !.exit = exit, !.fallback = TRUE,
                                       !.result = "python"]
               IN  t_hist' = (IF t_impl = "web" /\ exit = "nonzero"
                              THEN EvError(h) ELSE h)
            /\ StartPython
       ELSE /\ t_emitted' = emitted
            /\ LET h == [t_hist EXCEPT !.exit = exit,
                            !.result = IF exit = "zero" THEN "true" ELSE "false"]
               IN  t_hist' = (IF t_impl = "web" /\ exit # "zero"
                              THEN EvError(h) ELSE h)
            /\ UNCHANGED <<spc, s_impl, s_playlist, s_index, segments_data,
                           s_hist>>

\* app.py:392  the initial "(0%)" event
TBegin ==
    /\ tpc = "start"
    /\ t_impl = "web"
    /\ t_emitted' = Append(t_emitted, Pct(0))
    /\ tpc' = "probe"
    /\ UNCHANGED <<t_impl, total_frames, duration, current_frame,
                   last_emitted_progress, t_hist>>
    /\ SegIdle
    /\ OnlyPlaylist

\* app.py:395-433  ffprobe: frame count and duration, 5000 when unknown
TProbe(frames, dur) ==
    /\ tpc = "probe"
    /\ total_frames' = (IF frames # 0 THEN frames ELSE FallbackFrames)
    /\ duration' = dur
    /\ tpc' = "launch"
    /\ UNCHANGED <<t_impl, current_frame, last_emitted_progress, t_emitted,
                   t_hist>>
    /\ SegIdle
    /\ OnlyPlaylist

\* app.py:449-458, 539-544  Popen starts ffmpeg, or raises FileNotFoundError,
\* or raises another exception (PermissionError, OSError, TypeError)
TLaunch(outcome) ==
    /\ tpc = "launch"
    /\ IF outcome = "started"
       THEN /\ tpc' = "read"
            /\ current_frame' = 0
            /\ last_emitted_progress' = -1
            /\ UNCHANGED <<t_emitted, t_hist>>
            /\ SegIdle
       ELSE /\ TLeave(outcome, t_emitted)
            /\ UNCHANGED <<current_frame, last_emitted_progress>>
    /\ UNCHANGED <<t_impl, total_frames, duration>>
    /\ OnlyPlaylist

\* app.py:475-478  int(current_frame * 1.2) and
\* min(int((current_frame / total_frames) * 100), 99) in whole numbers
EnlargedTotal(frame, total) ==
    IF frame > total THEN (frame * 6) \div 5 ELSE total

FrameProgressUncapped(frame, total) == (frame * 100) \div total

FrameProgress(frame, total) == Min((frame * 100) \div total, 99)

\* app.py:499-501  min(int((time_seconds / duration) * 100), 99)
TimeProgress(seconds, dur) == Min((seconds * 100) \div dur, 99)

MoreLines == tpc = "read" /\ t_hist.lines < MaxLines

\* app.py:467-493  a "frame=N" line; ffmpeg's frame counter never goes back
TFrameLine(n) ==
    /\ MoreLines
    /\ n >= current_frame
    /\ current_frame' = n
    /\ IF total_frames > 0
       THEN LET total == EnlargedTotal(n, total_frames)
                progress == FrameProgress(n, total)
            IN  /\ total_frames' = total
                /\ IF progress > last_emitted_progress
                   THEN /\ t_emitted' = Append(t_emitted, Pct(progress))
                        /\ last_emitted_progress' = progress
                   ELSE IF n % 25 = 0 /\ n > 0
                   THEN /\ t_emitted' = Append(t_emitted, Pct(progress))
                        /\ UNCHANGED last_emitted_progress
                   ELSE UNCHANGED <<t_emitted, last_emitted_progress>>
       ELSE /\ UNCHANGED total_frames
            /\ IF n % 50 = 0 /\ n > 0
               THEN LET estimated_progress == Min((n * 100) \div 3000, 95)
                    IN  /\ t_emitted' = Append(t_emitted, Pct(estimated_progress))
                        /\ last_emitted_progress' = estimated_progress
               ELSE UNCHANGED <<t_emitted, last_emitted_progress>>
    /\ t_hist' = [t_hist EXCEPT !.lines = @ + 1]
    /\ UNCHANGED <<tpc, t_impl, duration>>
    /\ SegIdle
    /\ OnlyPlaylist

\* app.py:496-506  an "out_time_ms=" line, skipped when no duration is known
TTimeLine(seconds) ==
    /\ MoreLines
    /\ seconds >= t_hist.time
    /\ IF duration > 0 /\ TimeProgress(seconds, duration) > last_emitted_progress
       THEN /\ t_emitted' = Append(t_emitted, Pct(TimeProgress(seconds, duration)))
            /\ last_emitted_progress' = TimeProgress(seconds, duration)
       ELSE UNCHANGED <<t_emitted, last_emitted_progress>>
    /\ t_hist' = [t_hist EXCEPT !.lines = @ + 1, !.time = seconds]
    /\ UNCHANGED <<tpc, t_impl, total_frames, duration, current_frame>>
    /\ SegIdle
    /\ OnlyPlaylist

\* app.py:509-511  "progress=end": 100% and the loop is left
TEndLine ==
    /\ MoreLines
    /\ t_emitted' = Append(t_emitted, Pct(100))
    /\ tpc' = "wait"
    /\ t_hist' = [t_hist EXCEPT !.lines = @ + 1]
    /\ UNCHANGED <<t_impl, total_frames, duration, current_frame,
                   last_emitted_progress>>
    /\ SegIdle
    /\ OnlyPlaylist

\* app.py:463, 513-514  the output ends, or reading it raises
TEof ==
    /\ tpc = "read"
    /\ tpc' = "wait"
    /\ UNCHANGED <<t_impl, total_frames, duration, current_frame,
                   last_emitted_progress, t_emitted, t_hist>>
    /\ SegIdle
    /\ OnlyPlaylist

\* app.py:517-537  process.wait() and the branch on the return code
TWait(code) ==
    /\ tpc = "wait"
    /\ TLeave(code, IF code = "zero" /\ last_emitted_progress < 100
                    THEN Append(t_emitted, Pct(100))
                    ELSE t_emitted)
    /\ UNCHANGED <<t_impl, total_frames, duration, current_frame,
                   last_emitted_progress>>
    /\ OnlyPlaylist

\* kukaj_downloader.py:764-789, 842-852  download_with_ffmpeg returns True on
\* exit 0 and False on every other outcome; download_m3u8_file then falls back
TRunFfmpeg(outcome) ==
    /\ tpc = "start"
    /\ t_impl = "kukaj"
    /\ TLeave(outcome, t_emitted)
    /\ UNCHANGED <<t_impl, total_frames, duration, current_frame,
                   last_emitted_progress>>
    /\ OnlyPlaylist

(***************************************************************************)
(* download_with_python: the segment reconstruction of both classes.       *)
(* s_file is the content of the output file, segments_data the list the    *)
(* KukajDownloader collects before it writes.                              *)
(***************************************************************************)
\* the bytes a segment's URL serves
Bytes(seg) == IF seg = "a" THEN <<1, 2>> ELSE <<3>>

RECURSIVE Concat(_)
Concat(chunks) ==
    IF chunks = <<>> THEN <<>> ELSE Head(chunks) \o Concat(Tail(chunks))

Playlists == UNION {[1..k -> Segments] : k \in 0..MaxSegments}

SegBodies(pl) == [i \in 1..Len(pl) |-> Bytes(pl[i])]

TrIdle ==
    UNCHANGED <<tpc, t_impl, total_frames, duration, current_frame,
                last_emitted_progress, t_hist>>

SReturn(result) ==
    /\ spc' = "done"
    /\ LET h == [s_hist EXCEPT !.result = result]
       IN  s_hist' = (IF s_impl = "web" /\ result = "false"
                      THEN EvError(h) ELSE h)

\* app.py:611-620, kukaj_downloader.py:797-806  m3u8.load, the empty check,
\* and (WebDownloader) open(output_filename, 'wb')
SLoad(pl, outcome) ==
    /\ spc = "load"
    /\ IF outcome = "throw" \/ pl = <<>>
       THEN /\ SReturn("false")
            /\ UNCHANGED <<s_playlist, s_index, segments_data, s_file>>
       ELSE /\ spc' = "loop"
            /\ s_playlist' = pl
            /\ s_index' = 0
            /\ segments_data' = <<>>
            /\ s_file' = (IF s_impl = "web" THEN OpenForWrite(s_file) ELSE s_file)
            /\ UNCHANGED s_hist
    /\ UNCHANGED <<s_impl, t_emitted>>
    /\ TrIdle
    /\ OnlyPlaylist

\* app.py:621-632  WebDownloader: the progress event, the fetch and the
\* write; a failed fetch raises and the call returns False.
\* kukaj_downloader.py:807-824  KukajDownloader: the body is collected; a
\* failed fetch is logged and the loop continues with the next segment.
SkipsFailedFetch(impl) == impl = "kukaj"

SFetch(outcome) ==
    /\ spc = "loop"
    /\ s_index < Len(s_playlist)
    /\ LET segment == s_playlist[s_index + 1]
           total_segments == Len(s_playlist)
           progress == (s_index * 100) \div total_segments
       IN  /\ t_emitted' = (IF s_impl = "web"
                            THEN Append(t_emitted, Pct(progress))
                            ELSE t_emitted)
           /\ IF outcome = "ok"
              THEN /\ IF s_impl = "web"
                      THEN /\ s_file' = s_file \o Bytes(segment)
                           /\ UNCHANGED segments_data
                      ELSE /\ segments_data' = Append(segments_data, Bytes(segment))
                           /\ UNCHANGED s_file
                   /\ s_index' = s_index + 1
                   /\ spc' = "loop"
                   /\ s_hist' = [s_hist EXCEPT
                          !.fetched = Append(@, "ok"),
                          !.written = IF s_impl = "web"
                                      THEN @ \o Bytes(segment) ELSE @]
              ELSE IF SkipsFailedFetch(s_impl)
              THEN /\ s_index' = s_index + 1
                   /\ spc' = "loop"
                   /\ s_hist' = [s_hist EXCEPT !.fetched = Append(@, "fail")]
                   /\ UNCHANGED <<segments_data, s_file>>
              ELSE /\ spc' = "done"
                   /\ s_hist' = EvError([s_hist EXCEPT
                                            !.fetched = Append(@, "fail"),
                                            !.result = "false"])
                   /\ UNCHANGED <<s_index, segments_data, s_file>>
    /\ UNCHANGED <<s_impl, s_playlist>>
    /\ TrIdle
    /\ OnlyPlaylist

\* app.py:634-635  WebDownloader: every segment was written.
\* kukaj_downloader.py:826-836  KukajDownloader: the collected bodies are
\* written when there is at least one; writing can raise (838-840).
SFinish(outcome) ==
    /\ spc = "loop"
    /\ s_index = Len(s_playlist)
    /\ IF s_impl = "web"
       THEN /\ SReturn("true")
            /\ UNCHANGED s_file
       ELSE IF segments_data # <<>> /\ outcome = "ok"
       THEN /\ s_file' = OpenForWrite(s_file) \o Concat(segments_data)
            /\ spc' = "done"
            /\ s_hist' = [s_hist EXCEPT !.result = "true",
                                        !.written = Concat(segments_data)]
       ELSE /\ SReturn("false")
            /\ UNCHANGED s_file
    /\ UNCHANGED <<s_impl, s_playlist, s_index, segments_data, t_emitted>>
    /\ TrIdle
    /\ OnlyPlaylist

(***************************************************************************)
(* The progressive branch of the KukajDownloader, download_mp4_file:       *)
(* the streamed transfer first, then ffmpeg's stream copy.                 *)
(***************************************************************************)
ProgressiveImpls == {"kukaj_mp4"}
StreamOutcomes == {"ok", "refused", "broken"}

\* kukaj_downloader.py:856-916, 922-923  download_mp4_python: the request
\* is refused before the file is opened, or the transfer breaks after it
PStream(outcome, left) ==
    /\ tpc = "start"
    /\ t_impl \in ProgressiveImpls
    /\ s_file' = (IF outcome = "ok" THEN OpenForWrite(s_file) \o Mp4Body
                  ELSE IF outcome = "broken" THEN OpenForWrite(s_file) \o left
                  ELSE s_file)
    /\ IF outcome = "ok"
       THEN /\ tpc' = "done"
            /\ t_hist' = [t_hist EXCEPT !.stream = "ok", !.result = "true"]
       ELSE /\ tpc' = "copy"
            /\ t_hist' = [t_hist EXCEPT !.stream = "failed"]
    /\ UNCHANGED <<t_impl, total_frames, duration, current_frame,
                   last_emitted_progress, t_emitted>>
    /\ UNCHANGED <<spc, s_impl, s_playlist, s_index, segments_data, s_hist>>
    /\ OnlyPlaylist

\* kukaj_downloader.py:925-947  ffmpeg -i mp4_url -c copy -y output_filename
PCopy(outcome, left) ==
    /\ tpc = "copy"
    /\ tpc' = "done"
    /\ s_file' = FfmpegLeaves(outcome, s_file, left)
    /\ t_hist' = [t_hist EXCEPT !.copy = outcome,
                    !.result = IF outcome = "zero" THEN "true" ELSE "false"]
    /\ s_hist' = [s_hist EXCEPT !.written = IF outcome = "zero"
                                            THEN FfmpegOutput ELSE @]
    /\ UNCHANGED <<t_impl, total_frames, duration, current_frame,
                   last_emitted_progress, t_emitted>>
    /\ UNCHANGED <<spc, s_impl, s_playlist, s_index, segments_data>>
    /\ OnlyPlaylist

LaunchOutcomes == {"started", "notfound", "error"}
ExitCodes == {"zero", "nonzero"}
RunOutcomes == {"zero", "nonzero", "notfound", "error"}
FetchOutcomes == {"ok", "fail"}

NextPlaylist ==
    \/ TBegin
    \/ \E frames \in ProbeFrames, dur \in ProbeDurations : TProbe(frames, dur)
    \/ \E outcome \in LaunchOutcomes : TLaunch(outcome)
    \/ \E n \in FrameCounts : TFrameLine(n)
    \/ \E seconds \in OutTimes : TTimeLine(seconds)
    \/ TEndLine
    \/ TEof
    \/ \E code \in ExitCodes : TWait(code)
    \/ \E outcome \in RunOutcomes : TRunFfmpeg(outcome)
    \/ \E pl \in Playlists, outcome \in Outcomes : SLoad(pl, outcome)
    \/ \E outcome \in FetchOutcomes : SFetch(outcome)
    \/ \E outcome \in Outcomes : SFinish(outcome)
    \/ \E outcome \in StreamOutcomes, left \in Mp4Partial : PStream(outcome, left)
    \/ \E outcome \in RunOutcomes, left \in FfmpegPartial : PCopy(outcome, left)


(***************************************************************************)
(* Admission of downloads: start_download, its download_thread and         *)
(* get_download_status share current_download_session and                  *)
(* download_start_time under global_download_lock.                         *)
(***************************************************************************)
MaxThreads == 3
MaxTicks == 5
StaleSeconds == 600
\* the step of the clock between two observations of datetime.now()
TickSeconds == 300
SessionIds == {"s1", "s2"}

AHist0 == [last |-> "none", admitted |-> 0]

InitAdmVars ==
    /\ current_download_session = "None"
    /\ download_start_time = -1
    /\ active_downloads = {}
    /\ a_now = 0
    /\ a_threads = {}
    /\ a_hist = AHist0

OnlyAdm ==
    UNCHANGED <<webVars, extVars, trVars, segVars, sessVars, normVars, lateVars>>

StillActiveForever == current_download_session # "None"

\* app.py:670-672, 878-880  a download is registered and younger than 600 s
StillActive ==
    /\ current_download_session # "None"
    /\ download_start_time # -1
    /\ a_now - download_start_time < StaleSeconds

\* time passes
ATick ==
    /\ a_now < MaxTicks * TickSeconds
    /\ a_now' = a_now + TickSeconds
    /\ UNCHANGED <<current_download_session, download_start_time,
                   active_downloads, a_threads, a_hist>>
    /\ OnlyAdm

\* app.py:668-695, 818-820  the locked block of start_download and the start
\* of the thread; 409 while a download is registered and not stale
AStart(session_id, valid) ==
    /\ a_hist.admitted < MaxThreads
    /\ IF ~valid
       THEN /\ a_hist' = [a_hist EXCEPT !.last = "400"]
            /\ UNCHANGED <<current_download_session, download_start_time,
                           a_threads>>
       ELSE IF StillActive
       THEN /\ a_hist' = [a_hist EXCEPT !.last = "409"]
            /\ UNCHANGED <<current_download_session, download_start_time,
                           a_threads>>
       ELSE /\ current_download_session' = session_id
            /\ download_start_time' = a_now
            /\ a_threads' = a_threads \cup
                   {[id |-> a_hist.admitted + 1, session |-> session_id,
                     pos |-> "new"]}
            /\ a_hist' = [a_hist EXCEPT !.last = "started", !.admitted = @ + 1]
    /\ UNCHANGED <<active_downloads, a_now>>
    /\ OnlyAdm

\* app.py:700-710  download_thread enters the pipeline
AThreadRun(id) ==
    \E t \in a_threads :
    /\ t.id = id
    /\ t.pos = "new"
    /\ active_downloads' = active_downloads \cup {t.session}
    /\ a_threads' = (a_threads \ {t}) \cup {[t EXCEPT !.pos = "pipeline"]}
    /\ UNCHANGED <<current_download_session, download_start_time, a_now, a_hist>>
    /\ OnlyAdm

\* app.py:745-747, 793-816  the pipeline returned or raised: the entry of
\* active_downloads is deleted and the finally block clears the admission
\* state when it names this thread's session
AThreadEnd(id) ==
    \E t \in a_threads :
    /\ t.id = id
    /\ t.pos = "pipeline"
    /\ active_downloads' = active_downloads \ {t.session}
    /\ a_threads' = a_threads \ {t}
    /\ IF current_download_session = t.session
       THEN /\ current_download_session' = "None"
            /\ download_start_time' = -1
       ELSE UNCHANGED <<current_download_session, download_start_time>>
    /\ UNCHANGED <<a_now, a_hist>>
    /\ OnlyAdm

\* app.py:872-906  get_download_status drops a stale registration
AStatus ==
    /\ IF StillActive
       THEN /\ a_hist' = [a_hist EXCEPT !.last = "downloading"]
            /\ UNCHANGED <<current_download_session, download_start_time>>
       ELSE /\ current_download_session' = "None"
            /\ download_start_time' = -1
            /\ a_hist' = [a_hist EXCEPT !.last = "idle"]
    /\ UNCHANGED <<active_downloads, a_now, a_threads>>
    /\ OnlyAdm

NextAdm ==
    \/ ATick
    \/ \E session_id \in SessionIds, valid \in BOOLEAN :
          AStart(session_id, valid)
    \/ \E id \in 1..MaxThreads : AThreadRun(id)
    \/ \E id \in 1..MaxThreads : AThreadEnd(id)
    \/ AStatus

IdleAdmVars == InitAdmVars

(***************************************************************************)
(* Browser sessions.  Each task owns a downloader with the handles         *)
(* self.page, self.context, self.browser and self.playwright; b_proc       *)
(* tells which of its driver and browser processes are running.            *)
(***************************************************************************)
\* the number of constructor, reinitialization and close() calls of a run
MaxOps == 4
Tasks == {1, 2}
\* the handles in the order close() releases them
HandlesDriverFirst == <<"playwright", "browser", "context", "page">>

Handles == <<"page", "context", "browser", "playwright">>
HandleSet == {Handles[i] : i \in 1..Len(Handles)}

NoHandles == [h \in HandleSet |-> "none"]
NoProcs == [driver |-> FALSE, browser |-> FALSE, engine |-> "none"]
BHist0 == [opens |-> 0, closes |-> 0,
           tried |-> <<>>, firefox |-> "none", failed_step |-> "none",
           open_result |-> "none",
           attempts |-> <<>>, step_failed |-> FALSE, killed |-> FALSE,
           close_raised |-> FALSE]

InitSessVars ==
    /\ b_arm \in BOOLEAN
    /\ b_impl \in [Tasks -> {"web", "kukaj"}]
    /\ b_pc = [t \in Tasks |-> "new"]
    /\ b_sess = [t \in Tasks |-> NoHandles]
    /\ b_proc = [t \in Tasks |-> NoProcs]
    /\ b_actor = 0
    /\ b_hist = [t \in Tasks |-> BHist0]

IdleSessVars ==
    /\ b_arm = FALSE
    /\ b_impl = [t \in Tasks |-> "web"]
    /\ b_pc = [t \in Tasks |-> "new"]
    /\ b_sess = [t \in Tasks |-> NoHandles]
    /\ b_proc = [t \in Tasks |-> NoProcs]
    /\ b_actor = 0
    /\ b_hist = [t \in Tasks |-> BHist0]

OnlySess ==
    UNCHANGED <<webVars, extVars, trVars, segVars, admVars, normVars, lateVars>>

OpsOf(t) == b_hist[t].opens + b_hist[t].closes

MoreOps == OpsOf(1) + OpsOf(2) < MaxOps

\* the outcome of every step of setup_playwright; a step that is not
\* reached is listed as TRUE, so that each run is listed once
StepOutcomes ==
    {o \in [driver : BOOLEAN, firefox : BOOLEAN, chromium : BOOLEAN,
            context : BOOLEAN, page : BOOLEAN] :
        /\ ~o.driver => (o.firefox /\ o.chromium /\ o.context /\ o.page)
        /\ o.firefox => o.chromium
        /\ (~o.firefox /\ ~o.chromium) => (o.context /\ o.page)
        /\ ~o.context => o.page}

\* kukaj_downloader.py:116-145  Chromium is launched in the handler of the
\* Firefox launch
TriesChromiumAlways(o) == TRUE

TriesChromium(o) == ~o.firefox

\* kukaj_downloader.py:89-185  the first step of setup_playwright that raises
FailedStep(o) ==
    IF ~o.driver THEN "driver"
    ELSE IF ~o.firefox /\ ~(TriesChromium(o) /\ o.chromium) THEN "launch"
    ELSE IF ~o.context THEN "context"
    ELSE IF ~o.page THEN "page"
    ELSE "none"

EnginesTried(o) ==
    IF ~o.driver THEN <<>>
    ELSE IF TriesChromium(o) THEN <<"Firefox", "Chromium">>
    ELSE <<"Firefox">>

EngineLaunched(o) ==
    IF ~o.driver THEN "none"
    ELSE IF o.firefox THEN "Firefox"
    ELSE IF TriesChromium(o) /\ o.chromium THEN "Chromium"
    ELSE "none"

\* the handles setup_playwright has assigned when it returns or raises
HandlesAfterOpen(o) ==
    LET f == FailedStep(o)
    IN  [h \in HandleSet |->
            IF h = "playwright" THEN (IF f = "driver" THEN "none" ELSE "open")
            ELSE IF h = "browser"
                 THEN (IF f \in {"driver", "launch"} THEN "none" ELSE "open")
            ELSE IF h = "context"
                 THEN (IF f \in {"driver", "launch", "context"} THEN "none" ELSE "open")
            ELSE (IF f = "none" THEN "open" ELSE "none")]

ProcsAfterOpen(o) ==
    [driver |-> o.driver,
     browser |-> EngineLaunched(o) # "none",
     engine |-> EngineLaunched(o)]

\* kukaj_downloader.py:65-87, app.py:134-142, 215  __init__: the handles are
\* reset to None and setup_playwright runs; the constructor call of a task,
\* or the super().__init__ of reinitialize_browser after its close()
BOpen(t, o) ==
    /\ MoreOps
    /\ \/ b_pc[t] = "new"
       \/ /\ b_pc[t] = "closed"
          /\ b_impl[t] = "web"
    /\ b_sess' = [b_sess EXCEPT ![t] = HandlesAfterOpen(o)]
    /\ b_proc' = [b_proc EXCEPT ![t] = ProcsAfterOpen(o)]
    /\ b_pc' = [b_pc EXCEPT ![t] =
                  IF FailedStep(o) = "none" THEN "ready"
                  ELSE IF b_pc[t] = "new" THEN "failed" ELSE "partial"]
    /\ b_hist' = [b_hist EXCEPT ![t] =
                  [@ EXCEPT !.opens = @ + 1,
                            !.tried = EnginesTried(o),
                            !.firefox = IF ~o.driver THEN "skip"
                                        ELSE IF o.firefox THEN "ok" ELSE "fail",
                            !.failed_step = FailedStep(o),
                            !.open_result = IF FailedStep(o) = "none"
                                            THEN "ok" ELSE "raised"]]
    /\ b_actor' = t
    /\ UNCHANGED <<b_arm, b_impl>>
    /\ OnlySess

\* app.py:192-204  WebDownloader.close runs pkill -f firefox and
\* pkill -f playwright on ARM, after every close.
\* kukaj_downloader.py:1055-1065  KukajDownloader.close runs pkill only in
\* its outer handler, which no release step reaches: each step has its own
\* handler (1031-1052)
ForceKills(impl, arm) == impl = "web" /\ arm

\* pkill -f matches by command line: every browser the driver installed
\* (its path holds "playwright", Firefox also "firefox") and every driver
KilledByName(procs) == [procs EXCEPT !.driver = FALSE, !.browser = FALSE]

\* kukaj_downloader.py:1027-1065, app.py:184-204  close(): the steps in
\* fails raise when they are attempted; kill tells whether pkill works
BClose(t, fails, kill) ==
    /\ b_pc[t] \in {"ready", "partial", "closed"}
    /\ MoreOps
    /\ \A h \in fails : b_sess[t][h] # "none"
    /\ ForceKills(b_impl[t], b_arm) \/ kill = "ok"
    /\ LET Exists(h) == b_sess[t][h] # "none"
           Released(h) == Exists(h) /\ h \notin fails
           attempts == SelectSeq(Handles, Exists)
           graceful == [b_proc[t] EXCEPT
                          !.browser = @ /\ ~Released("browser")
                                        /\ ~Released("playwright"),
                          !.driver = @ /\ ~Released("playwright")]
           kills == ForceKills(b_impl[t], b_arm)
       IN  /\ b_sess' = [b_sess EXCEPT ![t] =
                  [h \in HandleSet |-> IF Released(h) THEN "closed" ELSE @[h]]]
           /\ b_proc' = [j \in Tasks |->
                  LET p == IF j = t THEN graceful ELSE b_proc[j]
                  IN  IF kills /\ kill = "ok" THEN KilledByName(p) ELSE p]
           /\ b_hist' = [b_hist EXCEPT ![t] =
                  [@ EXCEPT !.closes = @ + 1,
                            !.attempts = attempts,
                            !.step_failed = \E h \in fails : Exists(h),
                            !.killed = kills,
                            !.close_raised = FALSE]]
    /\ b_pc' = [b_pc EXCEPT ![t] = "closed"]
    /\ b_actor' = t
    /\ UNCHANGED <<b_arm, b_impl>>
    /\ OnlySess

KillOutcomes == {"ok", "fail"}

NextSess ==
    \/ \E t \in Tasks, o \in StepOutcomes : BOpen(t, o)
    \/ \E t \in Tasks, fails \in SUBSET HandleSet, kill \in KillOutcomes :
          BClose(t, fails, kill)

(***************************************************************************)
(* normalize_kukaj_url.  An address is the string                          *)
(*   lead ++ user ++ sub ++ dom ++ tld ++ port ++ path ++ params ++        *)
(*   query ++ fragment                                                     *)
(* kept as a record of its parts, so that urlparse, the substring test and *)
(* the regular expression can be computed on it.                           *)
(***************************************************************************)
Leads == {"https://", "HTTPS://", "//"}
Users == {"", "user@"}
Subs == {"", "serial."}
Doms == {"kukaj.", "Kukaj.", "example."}
Tlds == {"fi", "io", "tv", "IO"}
Ports == {"", ":8080"}
Paths == {"/film"}
Params == {"", ";v=1"}
Queries == {"", "?x=1"}
Fragments == {"", "#t"}

Addresses ==
    [lead : Leads, user : Users, sub : Subs, dom : Doms, tld : Tlds,
     port : Ports, path : Paths, params : Params, query : Queries,
     fragment : Fragments]

NoAddress ==
    [lead |-> "", user |-> "", sub |-> "", dom |-> "", tld |-> "",
     port |-> "", path |-> "", params |-> "", query |-> "", fragment |-> ""]

\* str.lower() on the parts of an address
NLower(part) ==
    CASE part = "HTTPS://" -> "https://"
      [] part = "Kukaj."   -> "kukaj."
      [] part = "IO"       -> "io"
      [] OTHER             -> part

\* urlparse(url).scheme: the text before "://", lower-cased; "" when the
\* address starts with "//"
ParsedScheme(a) == IF a.lead = "//" THEN "" ELSE "https"

\* f"{parsed.scheme}://": the scheme followed by "://"
LeadOfScheme(scheme) == IF scheme = "https" THEN "https://" ELSE "://"

\* 'kukaj.' in parsed.netloc  (netloc = user ++ sub ++ dom ++ tld ++ port);
\* an address that starts with "://" has no scheme and no netloc: all of it
\* is its path
NetlocHoldsKukaj(a) == a.lead # "://" /\ a.dom = "kukaj."

NeedsRewriteAlways(tld) == TRUE

\* kukaj_downloader.py:46  if tld != 'fi'
NeedsRewrite(tld) == tld # "fi"

\* [a-z]+ on the text after "kukaj."
LowerLetters(text) == text \in {"fi", "io", "tv"}

\* re.match(r'^(.*\.)?(kukaj\.)([a-z]+)$', parsed.netloc): the text before
\* "kukaj." is empty or ends with a dot, the text after it is lower-case
\* letters up to the end of the netloc
NetlocMatches(a) ==
    /\ a.dom = "kukaj."
    /\ (a.user = "" \/ a.sub # "")
    /\ LowerLetters(a.tld)
    /\ a.port = ""

\* kukaj_downloader.py:22-61
normalize_kukaj_url(a) ==
    IF NetlocHoldsKukaj(a) /\ NetlocMatches(a) /\ NeedsRewrite(a.tld)
    THEN [url |-> [lead |-> LeadOfScheme(ParsedScheme(a)),
                   user |-> a.user, sub |-> a.sub, dom |-> "kukaj.",
                   tld |-> "fi", port |-> "",
                   path |-> a.path, params |-> "",
                   query |-> a.query, fragment |-> a.fragment],
          changed |-> TRUE]
    ELSE [url |-> a, changed |-> FALSE]

InitNormVars ==
    /\ npc = "call"
    /\ n_in \in Addresses
    /\ n_out = [url |-> NoAddress, changed |-> FALSE]
    /\ n_again = [url |-> NoAddress, changed |-> FALSE]

IdleNormVars ==
    /\ npc = "idle"
    /\ n_in = NoAddress
    /\ n_out = [url |-> NoAddress, changed |-> FALSE]
    /\ n_again = [url |-> NoAddress, changed |-> FALSE]

NNormalize ==
    /\ npc = "call"
    /\ n_out' = normalize_kukaj_url(n_in)
    /\ npc' = "done"
    /\ UNCHANGED <<n_in, n_again>>
    /\ UNCHANGED <<webVars, extVars, trVars, segVars, admVars, sessVars,
                   lateVars>>

\* app.py:244-249  the next iteration of the retry loop normalizes the
\* address the previous one has returned (url = normalized_url)
NRepeat ==
    /\ npc = "done"
    /\ n_again' = normalize_kukaj_url(n_out.url)
    /\ npc' = "again"
    /\ UNCHANGED <<n_in, n_out>>
    /\ UNCHANGED <<webVars, extVars, trVars, segVars, admVars, sessVars,
                   lateVars>>

NextNorm == NNormalize \/ NRepeat

(***************************************************************************)
(* The output filename derived from the page address when none is          *)
(* supplied: KukajDownloader.download_video and the TAP fallback of        *)
(* WebDownloader.download_video.  A path is the sequence of its segments,  *)
(* a segment and a filename a sequence of characters.                      *)
(***************************************************************************)
MaxSegs == 3        \* segments of a page path

\* what a path segment is made of: a letter, a character that [^\w\-_.]
\* matches, and the word "film" (the segment <<"film">> is 'film')
PathChars == {"a", "%", "film"}

PathSegments == [1..1 -> PathChars] \cup [1..2 -> PathChars]

PagePaths == UNION {[1..k -> PathSegments] : k \in 0..MaxSegs}

OnlyName == UNCHANGED <<webVars, extVars, trVars, segVars, admVars, sessVars,
                        normVars, streamVars, emitVars, tailVars>>

\* parsed_url.path.strip('/').split('/'): never an empty list, the empty
\* path gives one empty segment
PathParts(path) == IF path = <<>> THEN << <<>> >> ELSE path

\* re.sub(r'[^\w\-_.]', '_', base_name)
Sanitized(name) ==
    [i \in 1..Len(name) |->
        IF name[i] \in {"a", "film", "_", "-", "."} THEN name[i] ELSE "_"]

\* app.py:734  re.sub(r'[^\\w\-_.]', '_', base_name): in the raw string the
\* class is "not one of \, w, -, _, ."; a letter other than w is replaced,
\* the four letters of "film" by four underscores
ThreadSanitized(name) ==
    [i \in 1..Len(name) |->
        IF name[i] \in {"_", "-", "."} THEN name[i]
        ELSE IF name[i] = "film" THEN "____"
        ELSE IF name[i] = "downloaded_video" THEN "__w_____________"
        ELSE "_"]

\* app.py:713-741  actual_filename of download_thread when no filename was
\* supplied; ext is ".mp4" with convert_to_mp4 or source TAP, else ".m3u8"
ThreadFilename(path, ext) ==
    LET path_parts == PathParts(path)
        n == Len(path_parts)
        base_name == IF n >= 1 /\ path_parts[n] # <<>>
                     THEN IF n >= 2 /\ path_parts[n - 1] # <<"film">>
                          THEN path_parts[n - 1] \o <<"_">> \o path_parts[n]
                          ELSE path_parts[n]
                     ELSE <<"downloaded_video">>
    IN  ThreadSanitized(base_name) \o <<ext>>

\* the same, without the replacement of characters
ThreadBaseName(path) ==
    LET path_parts == PathParts(path)
        n == Len(path_parts)
    IN  IF n >= 2 /\ path_parts[n - 1] # <<"film">>
        THEN path_parts[n - 1] \o <<"_">> \o path_parts[n]
        ELSE path_parts[n]

\* kukaj_downloader.py:986-1001
KukajFilename(path, ext) ==
    LET path_parts == PathParts(path)
        n == Len(path_parts)
        filename == IF n >= 3
                    THEN path_parts[n - 1] \o <<"_">> \o path_parts[n]
                    ELSE path_parts[n]
    IN  filename \o <<ext>>

\* app.py:272-282
WebFallbackFilename(path) ==
    LET path_parts == PathParts(path)
        n == Len(path_parts)
        base_name == IF n >= 2
                     THEN path_parts[n - 1] \o <<"_">> \o path_parts[n]
                     ELSE path_parts[n]
    IN  Sanitized(base_name) \o <<".mp4">>

InitNameVars ==
    /\ fpc = "call"
    /\ f_in \in [impl : Impls, path : PagePaths, ext : {".mp4", ".m3u8"}]
    /\ f_in.impl = "web" => f_in.ext = ".mp4"
    /\ f_out = <<>>
    /\ f_thread = <<>>

IdleNameVars ==
    /\ fpc = "idle"
    /\ f_in = [impl |-> "web", path |-> <<>>, ext |-> ".mp4"]
    /\ f_out = <<>>
    /\ f_thread = <<>>

\* if not output_filename: ... output_filename = ...
FDerive ==
    /\ fpc = "call"
    /\ OnlyName
    /\ f_out' = IF f_in.impl = "kukaj"
                THEN KukajFilename(f_in.path, f_in.ext)
                ELSE WebFallbackFilename(f_in.path)
    /\ fpc' = "done"
    /\ UNCHANGED <<f_in, f_thread>>

\* app.py:713-743  after download_video returned, download_thread computes
\* the name for the history entry and the file-exists check
FThread ==
    /\ fpc = "done"
    /\ OnlyName
    /\ f_thread' = ThreadFilename(f_in.path, f_in.ext)
    /\ fpc' = "recorded"
    /\ UNCHANGED <<f_in, f_out>>

NextName == FDerive \/ FThread

(***************************************************************************)
(* The streamed download of a progressive file with its progress reports:  *)
(* KukajDownloader.download_mp4_python (printed percentages) and           *)
(* WebDownloader._download_direct_mp4 (progress events).  Sizes are in     *)
(* units of which a chunk holds at most MaxChunk.                          *)
(***************************************************************************)
MaxChunk == 2

\* int(r.headers.get("content-length", 0))
Totals == {0, 7, 25}

OnlyStream == UNCHANGED <<webVars, extVars, trVars, segVars, admVars, sessVars,
                          normVars, nameVars, emitVars, tailVars>>

\* the step of the reports: pct >= last_pct + 10, pct >= last_pct + 5
ReportStep(impl) == IF impl = "kukaj" THEN 10 ELSE 5

\* a percentage is reported: the last two are kept
Reported(reports, pct) ==
    IF Len(reports) < 2 THEN Append(reports, pct) ELSE <<reports[2], pct>>

InitStreamVars ==
    /\ ppc = "request"
    /\ p_impl \in Impls
    /\ p_total \in Totals
    /\ downloaded = 0
    /\ last_pct = -1
    /\ p_reports = <<>>

IdleStreamVars ==
    /\ ppc = "idle"
    /\ p_impl = "web"
    /\ p_total = 0
    /\ downloaded = 0
    /\ last_pct = -1
    /\ p_reports = <<>>

\* app.py:572-584, kukaj_downloader.py:894-901  the "(0%)" event of the
\* WebDownloader, then the request: it is answered, or it raises
PRequest(outcome) ==
    /\ ppc = "request"
    /\ OnlyStream
    /\ p_reports' = IF p_impl = "web" THEN Reported(p_reports, 0)
                    ELSE p_reports
    /\ ppc' = IF outcome = "ok" THEN "loop" ELSE "done"
    /\ UNCHANGED <<p_impl, p_total, downloaded, last_pct>>

\* one chunk of the body is written and counted
PChunk(size) ==
    /\ ppc = "loop"
    /\ OnlyStream
    /\ IF p_total = 0
       THEN /\ size = 1
            /\ UNCHANGED <<downloaded, last_pct, p_reports>>
       ELSE /\ downloaded + size <= p_total
            /\ downloaded' = downloaded + size
            /\ LET pct == (downloaded' * 100) \div p_total
               IN  IF pct >= last_pct + ReportStep(p_impl)
                   THEN /\ p_reports' = Reported(p_reports, pct)
                        /\ last_pct' = pct
                   ELSE UNCHANGED <<last_pct, p_reports>>
    /\ ppc' = "loop"
    /\ UNCHANGED <<p_impl, p_total>>

\* the body has ended: the "(100%)" event of the WebDownloader, return True;
\* or the transfer raised: return False
PEnd(outcome) ==
    /\ ppc = "loop"
    /\ OnlyStream
    /\ outcome = "ok" => (p_total = 0 \/ downloaded = p_total)
    /\ p_reports' = IF outcome = "ok" /\ p_impl = "web"
                    THEN Reported(p_reports, 100)
                    ELSE p_reports
    /\ ppc' = "done"
    /\ UNCHANGED <<p_impl, p_total, downloaded, last_pct>>

NextStream ==
    \/ \E outcome \in Outcomes : PRequest(outcome)
    \/ \E size \in 1..MaxChunk : PChunk(size)
    \/ \E outcome \in Outcomes : PEnd(outcome)

(***************************************************************************)
(* WebDownloader.emit_progress with the error counter of one downloader.   *)
(***************************************************************************)
max_errors == 5
MaxEmits == 7       \* calls of emit_progress by one operation

Severities == {"info", "success", "warning", "error"}

OnlyEmit == UNCHANGED <<webVars, extVars, trVars, segVars, admVars, sessVars,
                        normVars, nameVars, streamVars, tailVars>>

\* app.py:134-137  self.error_count = 0
InitEmitVars ==
    /\ error_count = 0
    /\ q_calls = 0
    /\ q_events = 0
    /\ q_aborts = 0
    /\ q_caller = "running"

IdleEmitVars == InitEmitVars

\* except Exception as e: print(...): nothing raised inside emit_progress,
\* the 'Maximum error count reached' exception included, leaves it
EscapesHandler(raised) == FALSE

\* one call of emit_progress by the running operation; delivery tells
\* whether socketio.emit raised
QEmit(status, delivery) ==
    /\ q_caller = "running"
    /\ q_calls < MaxEmits
    /\ OnlyEmit
    /\ q_calls' = q_calls + 1
    /\ IF delivery = "throw"
       THEN /\ q_caller' = IF EscapesHandler(TRUE) THEN "aborted" ELSE "running"
            /\ UNCHANGED <<error_count, q_events, q_aborts>>
       ELSE /\ q_events' = q_events + 1
            /\ error_count' = IF status = "error" THEN error_count + 1
                              ELSE error_count
            /\ LET limit == status = "error" /\ error_count' >= max_errors
               IN  /\ q_aborts' = IF limit THEN q_aborts + 1 ELSE q_aborts
                   /\ q_caller' = IF EscapesHandler(limit) THEN "aborted"
                                  ELSE "running"

NextEmit ==
    \E status \in Severities, delivery \in Outcomes : QEmit(status, delivery)

(***************************************************************************)
(* The download history: add_to_history, delete_history_item and           *)
(* clear_history_endpoint on the global list download_history.  A URL is   *)
(* a positive number (0: the request names no URL); the date of an entry   *)
(* is the number of the add_to_history call that made it.                  *)
(***************************************************************************)
HistoryCap == 50
MaxAdds == 53
MaxOther == 2
SmallLen == 2

OnlyHist == UNCHANGED <<webVars, extVars, trVars, segVars, admVars, sessVars,
                        normVars, nameVars, streamVars, emitVars, monVars,
                        cookieVars>>

HHist0 == [adds |-> 0, fresh |-> 0, others |-> 0, last |-> "none", url |-> 0]

\* app.py:60-70  load_history without a history file
InitHistVars ==
    /\ download_history = <<>>
    /\ h_hist = HHist0

IdleHistVars == InitHistVars


UrlsOf(history) == {history[i].url : i \in 1..Len(history)}

WithoutUrlKept(history, url) == history

\* app.py:102, 929  [entry for entry in download_history
\*                     if entry.get('url') != url]
WithoutUrl(history, url) ==
    LET Other(entry) == entry.url # url
    IN  SelectSeq(history, Other)

\* app.py:116-118  download_history[:50] when longer than 50
Truncated(history) ==
    IF Len(history) > HistoryCap THEN SubSeq(history, 1, HistoryCap)
    ELSE history

\* the URLs the requests name: one never used before, and those of the
\* first and of the last entry of the list
FreshUrl == h_hist.fresh + 1

EntryUrls ==
    IF download_history = <<>> THEN {}
    ELSE {download_history[1].url, download_history[Len(download_history)].url}

\* the requests that name an entry, and the clearing, are explored on short
\* lists and on lists at the cap, a bounded number of times
MoreOther ==
    /\ h_hist.others < MaxOther
    /\ \/ Len(download_history) <= SmallLen
       \/ Len(download_history) >= HistoryCap - 1

\* app.py:80-120  add_to_history(url, ...)
HAdd(url) ==
    /\ h_hist.adds < MaxAdds
    /\ url \in EntryUrls \cup {FreshUrl}
    /\ url \in EntryUrls => MoreOther
    /\ download_history' =
          Truncated(<<[url |-> url, stamp |-> h_hist.adds + 1]>>
                       \o WithoutUrl(download_history, url))
    /\ h_hist' = [h_hist EXCEPT
                    !.adds = @ + 1,
                    !.fresh = IF url = FreshUrl THEN @ + 1 ELSE @,
                    !.others = IF url = FreshUrl THEN @ ELSE @ + 1,
                    !.last = "added",
                    !.url = url]
    /\ OnlyHist

\* app.py:919-934  delete_history_item: 400 without a URL, 404 'Entry not
\* found' when the list keeps its length, else the entry is removed
HDelete(url) ==
    /\ url \in EntryUrls \cup {FreshUrl, 0}
    /\ url \in EntryUrls => MoreOther
    /\ IF url = 0
       THEN /\ h_hist' = [h_hist EXCEPT !.last = "required", !.url = url]
            /\ UNCHANGED download_history
       ELSE IF Len(WithoutUrl(download_history, url)) = Len(download_history)
       THEN /\ h_hist' = [h_hist EXCEPT !.last = "not_found", !.url = url]
            /\ UNCHANGED download_history
       ELSE /\ download_history' = WithoutUrl(download_history, url)
            /\ h_hist' = [h_hist EXCEPT !.last = "removed", !.url = url,
                                        !.others = @ + 1]
    /\ OnlyHist

\* app.py:911-917  clear_history_endpoint
HClear ==
    /\ MoreOther
    /\ download_history # <<>>
    /\ download_history' = <<>>
    /\ h_hist' = [h_hist EXCEPT !.last = "cleared", !.url = 0,
                                !.others = @ + 1]
    /\ OnlyHist

NextHist ==
    \/ \E url \in 1..(MaxAdds + 1) : HAdd(url)
    \/ \E url \in 0..(MaxAdds + 1) : HDelete(url)
    \/ HClear

(***************************************************************************)
(* The synthetic MON address: urljoin(url, f"{p1}/1") and                  *)
(* urljoin(url, f"{p1}/{p2}/1") on the page address.  An address is the    *)
(* list of the segments of its path and whether it ends with a slash.      *)
(***************************************************************************)
OnlyMon == UNCHANGED <<webVars, extVars, trVars, segVars, admVars, sessVars,
                       normVars, nameVars, streamVars, emitVars, histVars,
                       cookieVars>>

PageAddresses == [path : PagePaths, slash : BOOLEAN]

\* a relative reference: its segments, and whether it starts with a slash
Reference(segs, rooted) == [segs |-> segs, rooted |-> rooted]

\* urllib.parse.urljoin(base, ref) on the path: a reference that starts
\* with a slash replaces the path, another one replaces the last segment of
\* the base path, that is what follows its last slash
urljoin(base, ref) ==
    IF ref.rooted THEN ref.segs
    ELSE IF base.slash \/ base.path = <<>> THEN base.path \o ref.segs
    ELSE SubSeq(base.path, 1, Len(base.path) - 1) \o ref.segs

\* f"{path_parts[0]}/1", f"{path_parts[0]}/{path_parts[1]}/1": an empty
\* first part gives a reference that starts with a slash
MonReference(path_parts) ==
    IF Len(path_parts) = 1
    THEN IF path_parts[1] = <<>>
         THEN Reference(<< <<"1">> >>, TRUE)
         ELSE Reference(<<path_parts[1], <<"1">> >>, FALSE)
    ELSE Reference(<<path_parts[1], path_parts[2], <<"1">> >>, FALSE)

\* kukaj_downloader.py:411-422
MonUrl(a) == urljoin(a, MonReference(PathParts(a.path)))

InitMonVars ==
    /\ mpc = "call"
    /\ m_in \in PageAddresses
    /\ m_in.path = <<>> => m_in.slash
    /\ m_out = <<>>

IdleMonVars ==
    /\ mpc = "idle"
    /\ m_in = [path |-> <<>>, slash |-> TRUE]
    /\ m_out = <<>>

MSynthesize ==
    /\ mpc = "call"
    /\ m_out' = MonUrl(m_in)
    /\ mpc' = "done"
    /\ UNCHANGED m_in
    /\ OnlyMon

NextMon == MSynthesize

(***************************************************************************)
(* The cookies download_mp4_python sends.  A host name is the list of its  *)
(* pieces: <<"x", "tape", ".", "com">> is the host xtape.com.              *)
(***************************************************************************)
MaxCookies == 2

OnlyCookie == UNCHANGED <<webVars, extVars, trVars, segVars, admVars, sessVars,
                          normVars, nameVars, streamVars, emitVars, histVars,
                          monVars>>

HostTape    == <<"tape", ".", "com">>
HostCdnTape == <<"cdn", ".", "tape", ".", "com">>
HostXtape   == <<"x", "tape", ".", "com">>
HostOther   == <<"other", ".", "net">>

TargetHosts == {HostTape, HostCdnTape, HostXtape, HostOther}

\* c.get('domain'): None (the empty list), a host name, or one with a
\* leading dot
CookieDomains == {<<>>, HostTape, <<".">> \o HostTape, HostOther}

Cookies == [name : {"", "sid"}, value : {"", "v"}, domain : CookieDomains]

CookieJars == UNION {[1..k -> Cookies] : k \in 0..MaxCookies}

\* domain.lstrip('.')
RECURSIVE lstrip(_)
lstrip(domain) ==
    IF domain # <<>> /\ Head(domain) = "." THEN lstrip(Tail(domain))
    ELSE domain

\* host.endswith(suffix) on strings
endswith(host, suffix) ==
    /\ Len(suffix) <= Len(host)
    /\ SubSeq(host, Len(host) - Len(suffix) + 1, Len(host)) = suffix

DomainScoped(host, domain) ==
    \/ host = lstrip(domain)
    \/ endswith(host, <<".">> \o lstrip(domain))

\* kukaj_downloader.py:884  name and value and domain and
\* host.endswith(domain.lstrip('.'))
CookieAttached(host, c) ==
    /\ c.name # ""
    /\ c.value # ""
    /\ c.domain # <<>>
    /\ endswith(host, lstrip(c.domain))

InitCookieVars ==
    /\ cpc = "call"
    /\ c_in \in [host : TargetHosts, context : BOOLEAN, jar : CookieJars]
    /\ ~c_in.context => c_in.jar = <<>>
    /\ c_out = <<>>

IdleCookieVars ==
    /\ cpc = "idle"
    /\ c_in = [host |-> HostTape, context |-> FALSE, jar |-> <<>>]
    /\ c_out = <<>>

\* kukaj_downloader.py:876-892  the cookies of the context that pass the
\* test, in their order; none when there is no context or when
\* context.cookies() raises
CAttach(outcome) ==
    /\ cpc = "call"
    /\ outcome = "raise" => c_in.context
    /\ c_out' = (IF c_in.context /\ outcome = "ok"
                 THEN LET Passes(c) == CookieAttached(c_in.host, c)
                      IN  SelectSeq(c_in.jar, Passes)
                 ELSE <<>>)
    /\ cpc' = "done"
    /\ UNCHANGED c_in
    /\ OnlyCookie

NextCookie == \E outcome \in {"ok", "raise"} : CAttach(outcome)

IdleTail == IdleHistVars /\ IdleMonVars /\ IdleCookieVars

IdleLate == IdleNameVars /\ IdleStreamVars /\ IdleEmitVars /\ IdleTail

IdleAux == IdleAdmVars /\ IdleSessVars /\ IdleNormVars /\ IdleLate

(***************************************************************************)
(* Specifications                                                          *)
(***************************************************************************)
InitExtract == IdleWebVars /\ IdleExtVars /\ IdleTrVars /\ IdleSegVars /\ IdleAux
SpecExtract == InitExtract /\ [][NextExtract]_vars

InitWeb == InitWebVars /\ IdleExtVars /\ IdleTrVars /\ IdleSegVars /\ IdleAux
SpecWeb == InitWeb /\ [][NextWeb]_vars


SpecWebLive == InitWeb /\ [][NextWeb]_vars /\ WF_vars(NextWeb)

InitPlaylist == IdleWebVars /\ IdleExtVars /\ InitPlaylistVars /\ IdleAux
SpecPlaylist == InitPlaylist /\ [][NextPlaylist]_vars

InitAdm == IdleWebVars /\ IdleExtVars /\ IdleTrVars /\ IdleSegVars /\ InitAdmVars
             /\ IdleSessVars /\ IdleNormVars /\ IdleLate
SpecAdm == InitAdm /\ [][NextAdm]_vars

InitName == IdleWebVars /\ IdleExtVars /\ IdleTrVars /\ IdleSegVars /\ IdleAdmVars
              /\ IdleSessVars /\ IdleNormVars /\ InitNameVars /\ IdleStreamVars
              /\ IdleEmitVars /\ IdleTail

InitStream == IdleWebVars /\ IdleExtVars /\ IdleTrVars /\ IdleSegVars
                /\ IdleAdmVars /\ IdleSessVars /\ IdleNormVars /\ IdleNameVars
                /\ InitStreamVars /\ IdleEmitVars /\ IdleTail
SpecStream == InitStream /\ [][NextStream]_vars

InitEmit == IdleWebVars /\ IdleExtVars /\ IdleTrVars /\ IdleSegVars /\ IdleAdmVars
              /\ IdleSessVars /\ IdleNormVars /\ IdleNameVars /\ IdleStreamVars
              /\ InitEmitVars /\ IdleTail
SpecEmit == InitEmit /\ [][NextEmit]_vars
SpecName == InitName /\ [][NextName]_vars

\* download_video of either class with the derivation of the filename
InitNaming == InitWeb \/ InitName
NextNaming == NextWeb \/ NextName
SpecNaming == InitNaming /\ [][NextNaming]_vars

InitNorm == IdleWebVars /\ IdleExtVars /\ IdleTrVars /\ IdleSegVars /\ IdleAdmVars
              /\ IdleSessVars /\ InitNormVars /\ IdleLate
SpecNorm == InitNorm /\ [][NextNorm]_vars

\* download_video and the strategies it calls, each from its entry
InitPipeline == InitWeb \/ InitPlaylist
NextPipeline == NextWeb \/ NextPlaylist
SpecPipeline == InitPipeline /\ [][NextPipeline]_vars

InitHist == IdleWebVars /\ IdleExtVars /\ IdleTrVars /\ IdleSegVars /\ IdleAdmVars
              /\ IdleSessVars /\ IdleNormVars /\ IdleNameVars /\ IdleStreamVars
              /\ IdleEmitVars /\ InitHistVars /\ IdleMonVars /\ IdleCookieVars
SpecHist == InitHist /\ [][NextHist]_vars

InitMon == IdleWebVars /\ IdleExtVars /\ IdleTrVars /\ IdleSegVars /\ IdleAdmVars
             /\ IdleSessVars /\ IdleNormVars /\ IdleNameVars /\ IdleStreamVars
             /\ IdleEmitVars /\ IdleHistVars /\ InitMonVars /\ IdleCookieVars
SpecMon == InitMon /\ [][NextMon]_vars

InitCookie == IdleWebVars /\ IdleExtVars /\ IdleTrVars /\ IdleSegVars
                /\ IdleAdmVars /\ IdleSessVars /\ IdleNormVars /\ IdleNameVars
                /\ IdleStreamVars /\ IdleEmitVars /\ IdleHistVars /\ IdleMonVars
                /\ InitCookieVars
SpecCookie == InitCookie /\ [][NextCookie]_vars

InitSess == IdleWebVars /\ IdleExtVars /\ IdleTrVars /\ IdleSegVars /\ IdleAdmVars
              /\ InitSessVars /\ IdleNormVars /\ IdleLate
SpecSess == InitSess /\ [][NextSess]_vars

(***************************************************************************)
(* Properties of the retry loop of WebDownloader.download_video            *)
(***************************************************************************)
LoopLeft == wpc \in {"download", "done"}

\* C1: one call of download_video runs the extraction with the requested
\* provider at most 3 times (the first attempt and 2 retries); retry_count
\* grows only by one and only at a step that ends an attempt without
\* candidates (an empty list, or an exception); and the loop is always left,
\* with a media URL selected or with the failure result.
C1_BoundedRetries ==
    /\ [](/\ w_hist.extracts <= max_retries + 1
          /\ w_hist.iter <= max_retries + 1
          /\ LoopLeft => (media_url # NoUrl \/ w_result = "false"))
    /\ [][retry_count' # retry_count =>
            /\ retry_count' = retry_count + 1
            /\ w_hist'.last \in {"empty", "threw"}
            /\ Len(w_hist'.outcomes) = Len(w_hist.outcomes) + 1]_vars
    /\ <>LoopLeft

\* C1 witness: the third extraction found candidates after two failed ones
C1_Witness ==
    /\ w_hist.extracts = 3
    /\ w_hist.outcomes = <<"empty", "threw", "urls">>
    /\ wpc = "download"
    /\ media_url # NoUrl

AllAttemptsDry ==
    /\ Len(w_hist.outcomes) = max_retries + 1
    /\ \A i \in 1..Len(w_hist.outcomes) : w_hist.outcomes[i] \in {"empty", "threw"}

\* C2: with provider TAP, once all 3 attempts ended without candidates (empty
\* list or exception) the fallback extraction with MON has run exactly once
\* by the time failure is returned; a fallback that found candidates forces
\* convert_to_mp4; no other provider ever runs the fallback extraction.
C2_FallbackOnceAfterRetries ==
    /\ (IsTap(w_source) /\ AllAttemptsDry /\ wpc = "done" /\ w_result = "false"
          /\ media_url = NoUrl)
         => w_hist.fallbacks = 1
    /\ w_hist.fallbacks <= 1
    /\ (w_hist.fallbacks = 1 /\ wpc \in {"select", "download"}) => convert_to_mp4
    /\ ~IsTap(w_source) => w_hist.fallbacks = 0

\* C3: on ARM the browser is reinitialized on the first retry, before that
\* retry's extraction, at most once per call, never on another iteration or
\* platform, and after a failed reinitialization the retry's extraction runs
\* on a usable browser session.
C3_ReinitOnFirstRetry ==
    /\ w_hist.reinit_iters \subseteq {1}
    /\ w_hist.reinits <= 1
    /\ ~w_hist.reinit_late
    /\ ~w_arm => w_hist.reinits = 0
    /\ (w_arm /\ w_hist.iter >= 2 /\ wpc # "prelude") => w_hist.reinits = 1
    /\ (w_hist.reinit_failed /\ wpc = "extract") => w_session = "open"


\* C12: a playlist strategy is applied only to a URL that holds '.m3u8' and
\* a progressive strategy only to a URL that does not, in
\* KukajDownloader.download_video and in WebDownloader.download_video, for
\* every provider and value of convert_to_mp4.
C12_StrategyByFormat ==
    /\ \A u \in Urls :
          /\ KukajStrategy(u) = "playlist" => IsPlaylist(u)
          /\ KukajStrategy(u) = "progressive" => ~IsPlaylist(u)
    /\ w_hist.strategy = "playlist" => IsPlaylist(media_url)
    /\ w_hist.strategy = "progressive" => ~IsPlaylist(media_url)

\* the positions of download_video inside its retry loop
InRetryLoop ==
    wpc \in {"loop", "prelude", "normalize", "extract", "fallback", "select"}

\* C33: the code after the retry loop of WebDownloader.download_video is
\* reached only with a media URL chosen from a non-empty candidate list:
\* the loop is left by the break after the selection or by a return of
\* failure, and the loop condition itself never ends the loop.
C33_DownloadNeedsUrl ==
    /\ []((wpc = "download" \/ w_hist.strategy # "none") =>
            /\ media_urls # <<>>
            /\ media_url # NoUrl
            /\ \E i \in 1..Len(media_urls) : media_urls[i] = media_url)
    /\ [][/\ wpc = "loop" => wpc' # "download"
          /\ (wpc # "download" /\ wpc' = "download") => wpc = "select"
          /\ (InRetryLoop /\ wpc' = "done") => w_result' = "false"]_vars

\* C33 witness: the download phase ran on a URL chosen in the last iteration
\* the loop allows
C33_Witness ==
    /\ wpc = "done"
    /\ w_hist.strategy # "none"
    /\ retry_count = max_retries
    /\ media_url # NoUrl

(***************************************************************************)
(* Properties of extract_media_urls                                        *)
(***************************************************************************)
Returned == epc = "returned"

\* C4: the source-activation loop of one call makes at most 3 attempts; the
\* control an attempt reads, navigates to or clicks was located in that same
\* attempt; no attempt starts once an attempt has activated the source; and
\* where the code after the loop is reached, the failure to activate is
\* reported exactly when no attempt activated the source.
C4_ActivationLoop ==
    /\ source_attempt <= max_source_attempts
    /\ epc \in {"act_href", "act_nav", "act_click", "act_settle"}
         => (e_hist.located_attempt = source_attempt /\ source_attempt >= 1)
    /\ source_activated => source_attempt = e_hist.activated_at
    /\ e_hist.after_loop => (e_hist.reported_failed <=> ~source_activated)
    /\ e_hist.reported_failed => e_hist.after_loop

\* C4 witness: the third attempt activated the source and the loop was left
C4_Witness ==
    /\ e_hist.after_loop
    /\ source_activated
    /\ e_hist.activated_at = max_source_attempts
    /\ ~e_hist.reported_failed

\* C5: the list returned by extract_media_urls holds no URL twice, on every
\* return path.
C5_NoDuplicateUrls == Returned => NoDuplicates(e_ret)

\* C6: for provider TAP every returned URL carries a Streamtape host marker,
\* on every return path.
C6_TapOnlyStreamtape ==
    (Returned /\ IsTap(e_source))
        => \A i \in 1..Len(e_ret) : IsStreamtape(e_ret[i])

\* C7: when extract_media_urls has returned, no listener registered during
\* that call is attached to the context, and no event of a later call is
\* seen by a listener of an older call.
C7_NoListenerLeft ==
    /\ Returned => \A l \in attached : l.call # e_call
    /\ ~e_hist.stale_observed


(***************************************************************************)
(* Properties of the playlist branch                                       *)
(***************************************************************************)
\* C8: in the events of one run of _download_with_progress_mp4, a percentage
\* is never lower than the percentage of the event before it, unless the
\* fallback to the other strategy was reported between the two.
C8_MonotoneProgress ==
    t_impl = "web" =>
        \A i \in 1..(Len(t_emitted) - 1) :
            (t_emitted[i].kind = "pct" /\ t_emitted[i + 1].kind = "pct")
                => t_emitted[i].pct <= t_emitted[i + 1].pct

Decided == tpc = "done"

C10_FileIsWholePlaylist ==
    (spc = "done" /\ s_hist.result = "true")
        => (s_file # <<>> /\ s_file = Concat(SegBodies(s_playlist)))

PlaylistImpl == t_impl \in Impls

PrimaryOk ==
    IF PlaylistImpl THEN t_hist.exit = "zero" ELSE t_hist.stream = "ok"

PrimaryFailed ==
    IF PlaylistImpl
    THEN t_hist.exit \in {"nonzero", "notfound", "error"}
    ELSE t_hist.stream = "failed"

FallbackRan == IF PlaylistImpl THEN spc # "idle" ELSE t_hist.copy # "none"

FallbackOk ==
    IF PlaylistImpl THEN s_hist.result = "true" ELSE t_hist.copy = "zero"

TaskDone == tpc = "done" /\ (t_hist.result = "python" => spc = "done")

TaskResult ==
    IF t_hist.result = "python" THEN s_hist.result ELSE t_hist.result

\* C11: in download_m3u8_file, download_mp4_file and
\* _download_with_progress_mp4 the fallback strategy runs only after the
\* primary one failed; the task returns success exactly when one of the two
\* succeeded (never both) and failure otherwise; and after a fallback that
\* succeeded the output file holds exactly what the fallback wrote.
C11_FallbackAfterFailure ==
    /\ FallbackRan => PrimaryFailed
    /\ ~(PrimaryOk /\ FallbackOk)
    /\ TaskDone => (TaskResult = "true" <=> (PrimaryOk \/ FallbackOk))
    /\ TaskDone => TaskResult \in {"true", "false"}
    /\ (TaskDone /\ FallbackOk) => s_file = s_hist.written

\* C11 witness: ffmpeg failed leaving a partial file over an older one, and
\* the segment reconstruction of the WebDownloader then succeeded
C11_Witness ==
    /\ t_impl = "web"
    /\ t_hist.exit = "nonzero"
    /\ TaskDone
    /\ TaskResult = "true"
    /\ Len(s_playlist) = 2
    /\ s_file = s_hist.written

(***************************************************************************)
(* Properties of the admission of downloads                                *)
(***************************************************************************)
\* C13: at every moment at most one download thread started by
\* start_download is running its pipeline.
C13_OneThread ==
    Cardinality({t \in a_threads : t.pos = "pipeline"}) <= 1

\* a download is registered and was started less than 600 seconds ago
YoungRegistration ==
    /\ current_download_session # "None"
    /\ a_now - download_start_time < 600

\* a valid start request has been answered in this step
StartAnswered ==
    a_hist' # a_hist /\ a_hist'.last \in {"409", "started"}

Ended == {t \in a_threads : \A u \in a_threads' : u.id # t.id}

\* the registered download, if any, is the one admitted last
Owner == IF current_download_session = "None" THEN 0 ELSE a_hist.admitted

\* C31: a finishing download thread clears the admission state only when the
\* registration is that of its own download, never that of a newer download
\* admitted after its own went stale, whatever the session identifiers; and
\* when the thread of the registered download ends no registration is left.
C31_OwnCleanupOnly ==
    [][\A t \in Ended :
          /\ (Owner # 0 /\ current_download_session' = "None") => t.id = Owner
          /\ t.id = Owner => current_download_session' = "None"]_vars

\* C31 with distinct session identifiers: the newer registration is kept
C31_OtherSessionKept ==
    [][\A t \in Ended :
          (Owner # 0 /\ t.id # Owner /\ t.session # current_download_session)
             => UNCHANGED <<current_download_session, download_start_time>>]_vars

\* C31, second half: the thread of the registered download leaves nothing
C31_OwnerLeavesNothing ==
    [][\A t \in Ended :
          t.id = Owner => /\ current_download_session' = "None"
                          /\ download_start_time' = -1]_vars

(***************************************************************************)
(* Properties of the browser sessions                                      *)
(***************************************************************************)
\* C14: no step of one task changes the handles or the processes of the
\* browser session of another task.
C14_SessionsIsolated ==
    [][\A t \in Tasks :
          (b_actor' # t /\ b_pc[t] \in {"ready", "partial"})
              => (b_sess'[t] = b_sess[t] /\ b_proc'[t] = b_proc[t])]_vars

\* the handles that exist when close() is entered are those setup_playwright
\* assigned; a release sets a handle to "closed" or leaves it as it was
ExistingInOrder(t) ==
    LET Exists(h) == b_sess[t][h] # "none"
    IN  SelectSeq(<<"page", "context", "browser", "playwright">>, Exists)

C16_ForceKillOnFailure ==
    \A t \in Tasks :
        (b_arm /\ b_pc[t] = "closed" /\ b_hist[t].step_failed)
            => b_hist[t].killed

EndedAfterFailedOpen(t) ==
    \/ b_pc[t] = "failed"
    \/ b_pc[t] = "closed" /\ b_hist[t].open_result = "raised"

\* C34: after an open that failed (the constructor raised, or
\* reinitialize_browser returned False) no automation driver and no browser
\* process started by that open is running once the owning task has ended.
C34_NothingLeftAfterFailedOpen ==
    \A t \in Tasks :
        EndedAfterFailedOpen(t) => (~b_proc[t].driver /\ ~b_proc[t].browser)

\* C34 for a failed reinitialization: the close() of __exit__ stops what the
\* failed open had started, when none of its release steps fails
C34_ReinitLeftoversClosed ==
    \A t \in Tasks :
        (b_pc[t] = "closed" /\ b_hist[t].open_result = "raised"
            /\ ~b_hist[t].step_failed)
          => (~b_proc[t].driver /\ ~b_proc[t].browser)

BinaryUnreachable ==
    t_impl = "web" /\ tpc = "done" /\ t_hist.exit = "notfound"

\* the percentages of the progress events emitted after the fallback notice
SegmentPercentages ==
    {t_emitted[i].pct : i \in {j \in 1..Len(t_emitted) :
        /\ t_emitted[j].kind = "pct"
        /\ \E k \in 1..(j - 1) : t_emitted[k] = FallbackReported}}

\* C25: when the transcoder binary is unreachable the orchestrator emits a
\* warning, switches to segment reconstruction, and when every segment was
\* fetched the percentages of the per-segment events have reached 100 by the
\* time success is reported.
C25_ReconstructionReaches100 ==
    BinaryUnreachable =>
        /\ InList(FallbackReported, t_emitted)
        /\ spc # "idle"
        /\ (spc = "done" /\ s_hist.result = "true")
              => 100 \in SegmentPercentages

\* C25, the warning and the switch to segment reconstruction alone
C25_WarningAndSwitch ==
    BinaryUnreachable =>
        /\ InList(FallbackReported, t_emitted)
        /\ spc # "idle"

\* the event a step of the transcoder strategy has appended
LastEmitted(emitted) == emitted[Len(emitted)]

\* C28: in the transcoder strategy a percentage derived from a frame-count
\* line or an elapsed-time line is at most 99, whatever the estimated total
\* and the frame count; 100 is emitted only on the completion marker or on
\* exit status zero.
C28_HundredOnlyAtCompletion ==
    [][(t_impl = "web" /\ tpc \in {"read", "wait"}
          /\ Len(t_emitted') = Len(t_emitted) + 1
          /\ LastEmitted(t_emitted').kind = "pct")
         => IF tpc' = "read"
            THEN LastEmitted(t_emitted').pct \in 0..99
            ELSE /\ LastEmitted(t_emitted').pct = 100
                 /\ \/ tpc = "read" /\ tpc' = "wait"
                    \/ tpc = "wait" /\ t_hist'.exit = "zero"]_vars

\* C28 witness: a frame count above the estimate enlarged the total and a
\* percentage was emitted for it
C28_Witness ==
    /\ t_impl = "web"
    /\ tpc = "read"
    /\ current_frame = 125
    /\ total_frames = 150
    /\ Len(t_emitted) > 0
    /\ LastEmitted(t_emitted) = Pct(83)

\* the 100% events among the progress events of one run
Hundreds(emitted) == {i \in 1..Len(emitted) : emitted[i] = Pct(100)}

\* C32: in one run of the transcoder strategy of the web downloader a 100%
\* event implies success without fallback: no run emits 100% and then reports
\* a transcoder error or switches to the segment reconstruction, and no run
\* emits 100% more than once.
C32_HundredMeansSuccess ==
    (t_impl = "web" /\ Hundreds(t_emitted) # {}) =>
        /\ Cardinality(Hundreds(t_emitted)) = 1
        /\ ~t_hist.fallback
        /\ ~t_hist.error_ev
        /\ tpc = "done" => t_hist.result = "true"

\* C32 without the completion marker: a run whose output never holds
\* "progress=end" emits 100% once, on exit 0, and then returns True
C32_HundredOnExitOnly ==
    (t_impl = "web" /\ Hundreds(t_emitted) # {} /\ tpc = "done"
        /\ t_hist.exit = "zero" /\ Cardinality(Hundreds(t_emitted)) = 1) =>
        t_hist.result = "true" /\ ~t_hist.fallback

(***************************************************************************)
(* Properties of the synthetic MON address                                 *)
(***************************************************************************)
\* C36: for provider MON and a page address whose path is p1 (film) or
\* p1/p2 (series episode) the synthetic address tried first has the path
\* /p1/1 respectively /p1/p2/1: the page path with "/1" appended.
C36_OneAppended ==
    (mpc = "done" /\ Len(m_in.path) \in {1, 2} /\ ~m_in.slash) =>
        m_out = m_in.path \o << <<"1">> >>

\* C36 for the address of a film without a closing slash
C36_FilmAddress ==
    (mpc = "done" /\ Len(m_in.path) = 1 /\ ~m_in.slash) =>
        m_out = m_in.path \o << <<"1">> >>

(***************************************************************************)
(* Properties of the cookies of the progressive download                   *)
(***************************************************************************)
\* C38: a cookie of the browsing session is attached to the request only
\* when it is scoped to the target host (the host equals the cookie's
\* domain or is a subdomain of it); a cookie of a domain that is merely a
\* string suffix of the host, or of an unrelated domain, is never sent.
C38_OnlyScopedCookies ==
    cpc = "done" =>
        \A i \in 1..Len(c_out) : DomainScoped(c_in.host, c_out[i].domain)

\* C38 for unrelated domains: the domain of a cookie sent is at least a
\* string suffix of the host, and the cookie has a name and a value
C38_NoUnrelatedCookies ==
    cpc = "done" =>
        \A i \in 1..Len(c_out) :
            /\ endswith(c_in.host, lstrip(c_out[i].domain))
            /\ c_out[i].name # ""
            /\ c_out[i].value # ""

(***************************************************************************)
(* Properties of the download history                                      *)
(***************************************************************************)
\* a delete_history_item request that names a URL has been answered
DeleteAnswered ==
    h_hist' # h_hist /\ h_hist'.last \in {"removed", "not_found"}

\* C35: after any sequence of add_to_history, delete_history_item and
\* clear_history_endpoint from an empty history, the history holds at most
\* 50 entries, no two entries have the same URL, the entries are ordered
\* most recently added first, and deleting a URL that is not present
\* reports 'Entry not found' and leaves the history unchanged.
C35_HistoryShape ==
    /\ [](/\ Len(download_history) <= 50
          /\ \A i, j \in 1..Len(download_history) :
                /\ i # j => download_history[i].url # download_history[j].url
                /\ i < j => download_history[i].stamp > download_history[j].stamp)
    /\ [][(DeleteAnswered /\ h_hist'.url \notin UrlsOf(download_history)) =>
            /\ h_hist'.last = "not_found"
            /\ UNCHANGED download_history]_vars

\* C35 witness: the list is full after an add dropped its oldest entry and a
\* delete of an absent URL was answered with 'Entry not found'
C35_Witness ==
    /\ Len(download_history) = HistoryCap
    /\ h_hist.fresh > HistoryCap
    /\ h_hist.others > 0
    /\ h_hist.last = "not_found"

(***************************************************************************)
(* Properties of emit_progress                                             *)
(***************************************************************************)
\* C29: once the error events emitted by one WebDownloader number
\* max_errors, emit_progress has raised to its caller and the operation that
\* emitted the error does not continue.
C29_AbortAtMaxErrors ==
    error_count >= max_errors => q_caller = "aborted"

\* C29, the counter and the abort notice alone: the fifth error event and
\* every later one is followed by a 'download_error_global' event
C29_AbortAnnounced ==
    /\ error_count < max_errors => q_aborts = 0
    /\ error_count >= max_errors => q_aborts = error_count - max_errors + 1

(***************************************************************************)
(* Properties of the progress of a streamed download                       *)
(***************************************************************************)
\* C26: in a streamed download with a declared total size two consecutive
\* reported percentages differ by at least the fixed step (10 in
\* download_mp4_python, 5 in _download_direct_mp4, its final report
\* included), and every reported percentage lies between 0 and 100.
C26_ReportsInSteps ==
    p_total > 0 =>
        /\ \A i \in 1..Len(p_reports) : p_reports[i] \in 0..100
        /\ Len(p_reports) = 2 =>
              p_reports[2] - p_reports[1] >= ReportStep(p_impl)

\* C26 for download_mp4_python alone
C26_KukajReports ==
    (p_total > 0 /\ p_impl = "kukaj") =>
        /\ \A i \in 1..Len(p_reports) : p_reports[i] \in 0..100
        /\ Len(p_reports) = 2 => p_reports[2] - p_reports[1] >= 10

\* C26 for the reports _download_direct_mp4 makes inside its loop
C26_WebLoopReports ==
    [][(p_total > 0 /\ p_impl = "web" /\ ppc = "loop" /\ ppc' = "loop"
          /\ last_pct >= 0 /\ last_pct' # last_pct)
         => last_pct' - last_pct >= 5]_vars

(***************************************************************************)
(* Properties of the choice among the candidates                           *)
(***************************************************************************)
HasPlaylist(list) == \E i \in 1..Len(list) : IsPlaylist(list[i])

\* the earliest discovered candidate among those of the best rank
EarliestBest(list) ==
    LET best == CHOOSE i \in 1..Len(list) :
                   /\ \A j \in 1..Len(list) :
                         PreferredRank(list[i]) <= PreferredRank(list[j])
                   /\ \A j \in 1..(i - 1) :
                         PreferredRank(list[j]) # PreferredRank(list[i])
    IN  list[best]

\* the choice is a playlist URL whenever one was discovered, and the earliest
\* discovered of the best rank
ChoiceIsRight(list, chosen) ==
    /\ HasPlaylist(list) => IsPlaylist(chosen)
    /\ chosen = EarliestBest(list)

\* C23: the URL chosen for download is a playlist URL whenever the candidate
\* list holds one, a progressive URL only when it holds none, and among
\* candidates of equal rank the earliest discovered; in
\* KukajDownloader.download_video and in WebDownloader.download_video, for
\* every provider.
C23_PlaylistPreferred ==
    w_hist.discovered # <<>> =>
        /\ ChoiceIsRight(w_hist.discovered, KukajSelect(w_hist.discovered))
        /\ ChoiceIsRight(w_hist.discovered, media_url)

\* C23 for KukajDownloader.download_video alone
C23_KukajChoice ==
    w_hist.discovered # <<>> =>
        ChoiceIsRight(w_hist.discovered, KukajSelect(w_hist.discovered))

\* C23 for WebDownloader.download_video with a provider other than TAP
C23_WebChoiceNotTap ==
    (w_hist.discovered # <<>> /\ ~IsTap(w_source)) =>
        ChoiceIsRight(w_hist.discovered, media_url)

(***************************************************************************)
(* Properties of the output filename                                       *)
(***************************************************************************)
\* characters that are safe in a filename, the extension as one token
FilenameSafe(name) ==
    \A i \in 1..Len(name) :
        name[i] \in {"a", "film", "_", "-", ".", ".mp4", ".m3u8"}

\* a server-side download of the WebDownloader has been started
WebDownloadStarted == w_hist.strategy = "playlist"

\* C24: when no output filename is supplied the download is written to a
\* name derived from the trailing segments of the page path with every
\* character that is not filename-safe replaced, in
\* KukajDownloader.download_video and on every path of
\* WebDownloader.download_video that downloads a file (no download starts
\* without an output filename).
C24_DerivedFilename ==
    /\ fpc = "done" => (f_out # <<>> /\ FilenameSafe(f_out))
    /\ WebDownloadStarted => w_hist.output_filename # "None"

\* C24, the name derived by the TAP fallback of the WebDownloader
C24_WebFallbackName ==
    (fpc = "done" /\ f_in.impl = "web") => FilenameSafe(f_out)

\* C24, the name derived by the KukajDownloader
C24_KukajName ==
    (fpc = "done" /\ f_in.impl = "kukaj") => FilenameSafe(f_out)

\* C24, no server-side download of the WebDownloader without a filename
C24_WebNameSet ==
    WebDownloadStarted => w_hist.output_filename # "None"

\* the page paths of one, two and three segments
ShortPath(path) == Len(path) \in 1..3

\* C37: with no filename supplied, the filename download_thread computes
\* for the history entry and for the file-exists check that gates the
\* download_complete event is the filename the downloader derives and
\* writes for the same address, for paths of one, two and three segments.
C37_SameFilename ==
    (fpc = "recorded" /\ ShortPath(f_in.path)) => f_thread = f_out

\* C37 without the replacement of characters: the choice of the segments
\* alone, against the fallback of the WebDownloader
C37_SameSegmentsAsWeb ==
    (fpc = "recorded" /\ ShortPath(f_in.path) /\ f_in.impl = "web") =>
        Sanitized(ThreadBaseName(f_in.path)) \o <<".mp4">> = f_out

\* C37 without the replacement of characters, against the KukajDownloader
C37_SameSegmentsAsKukaj ==
    (fpc = "recorded" /\ ShortPath(f_in.path) /\ f_in.impl = "kukaj") =>
        ThreadBaseName(f_in.path) \o <<f_in.ext>> = f_out

\* C37 for one-segment paths, without the replacement of characters
C37_SameForOneSegment ==
    (fpc = "recorded" /\ Len(f_in.path) = 1) =>
        f_out = (IF f_in.impl = "web"
                 THEN Sanitized(ThreadBaseName(f_in.path))
                 ELSE ThreadBaseName(f_in.path)) \o <<f_in.ext>>

(***************************************************************************)
(* Properties of the handling of a provider control                        *)
(***************************************************************************)
\* an inert link target: '#', empty, absent or 'javascript:void(0)'
Inert(href) == href \in {"None", "", "#", "javascript:void(0)"}

\* the action the claim asks for on a control with this link target
ActionFor(href) == IF Inert(href) THEN "click" ELSE "goto"

\* C21: a matched provider control with an inert link target is clicked and
\* not navigated to, a control with any other target is navigated to and not
\* clicked; in the source-activation loop and in the legacy TAP extractor,
\* its generic-anchor path included.
C21_InertMeansClick ==
    /\ e_hist.action # "none" => e_hist.action = ActionFor(e_hist.href)
    /\ e_hist.tap_by # "none" => e_hist.tap_action = ActionFor(e_hist.tap_href)

\* C21, the source-activation loop alone
C21_GeneralFlow ==
    e_hist.action # "none" => e_hist.action = ActionFor(e_hist.href)

\* C21, the legacy TAP extractor without its generic-anchor path
C21_LegacyLabel ==
    e_hist.tap_by \in {"menu", "page"}
        => e_hist.tap_action = ActionFor(e_hist.tap_href)

\* the strategies consulted by the latest attempt, in the order consulted
Consulted == SubSeq(StrategyOrder, 1, e_hist.consulted)

InAttempt ==
    epc \in {"act_ready", "act_locate", "act_href", "act_nav", "act_click",
             "act_settle"}

\* C27: between any two consecutive source-activation attempts of one call a
\* backoff wait took place, whatever made the earlier attempt fail: by the
\* n-th attempt n - 1 waits have returned.
C27_BackoffBetweenAttempts ==
    InAttempt => e_hist.waits = source_attempt - 1

\* C27, the attempts that follow a not-found attempt or an error caught by
\* the handler of the loop: the wait has taken place when the loop test runs
C27_BackoffAfterNotFound ==
    [][(epc \in {"act_backoff", "act_except"} /\ epc' = "act_loop")
          => e_hist'.waits = e_hist.waits + 1]_vars

(***************************************************************************)
(* Properties of normalize_kukaj_url                                       *)
(***************************************************************************)
\* host names are compared without regard to case
InFamily(a) == NLower(a.dom) = "kukaj."

Variant(a) == NLower(a.tld)

\* the same address, the scheme compared without regard to case
SameAddress(a, b) ==
    [a EXCEPT !.lead = NLower(a.lead)] = [b EXCEPT !.lead = NLower(b.lead)]

\* C19: an address whose host is in the kukaj family with a variant other
\* than 'fi' is returned with the variant rewritten to 'fi' and changed =
\* true; every other address is returned unchanged with changed = false.
C19_NormalizeFamily ==
    npc = "done" =>
        IF InFamily(n_in) /\ Variant(n_in) # "fi"
        THEN /\ n_out.changed
             /\ SameAddress(n_out.url, [n_in EXCEPT !.tld = "fi"])
        ELSE n_out = [url |-> n_in, changed |-> FALSE]

\* C20: a rewritten address differs from the input only in the top-level
\* variant of the host: scheme, subdomain, path (with its parameters),
\* query and fragment are those of the input.
C20_RewriteKeepsTheRest ==
    (npc = "done" /\ n_out.changed) =>
        /\ NLower(n_out.url.lead) = NLower(n_in.lead)
        /\ n_out.url.user = n_in.user
        /\ n_out.url.sub = n_in.sub
        /\ n_out.url.dom = n_in.dom
        /\ n_out.url.port = n_in.port
        /\ n_out.url.path = n_in.path
        /\ n_out.url.params = n_in.params
        /\ n_out.url.query = n_in.query
        /\ n_out.url.fragment = n_in.fragment

\* C39: normalize_kukaj_url is idempotent: normalizing the address it has
\* returned gives that same address with changed = false, so the repeated
\* normalization on every retry of WebDownloader.download_video never
\* changes the address again.
C39_Idempotent ==
    npc = "again" => n_again = [url |-> n_out.url, changed |-> FALSE]

\* C39 witness: the first call rewrote the address, the second call was made
\* on the rewritten address
C39_Witness ==
    /\ npc = "again"
    /\ n_out.changed
    /\ n_out.url # n_in
    /\ n_again.url = n_out.url

====
